---- MODULE Spec2Model ----
(***************************************************************************)
(* Model of the service-client runtime of doraemon.services:               *)
(*   enhanced_service.py  ConnectionManager, ServiceRegistry,              *)
(*                        ResponseCache, EnhancedService (blocking client) *)
(*   async_service.py     AsyncConnectionManager, AsyncService             *)
(*                        (non-blocking client, batch_call),               *)
(*                        AsyncServiceRegistry                             *)
(*                                                                         *)
(* time.time() is the variable now, a clock that only moves forward.       *)
(* Python's None is the record NoneVal; a dict is the sequence of its      *)
(* (key, value) items in insertion order, which is the order str() and     *)
(* iteration use.                                                          *)
(***************************************************************************)
EXTENDS Integers, Sequences, FiniteSets, TLC

(***************************************************************************)
(* Program constants                                                       *)
(***************************************************************************)
\* EnhancedService.__init__ / AsyncService.__init__: _circuit_breaker_threshold
circuit_breaker_threshold == 5
\* EnhancedService.__init__ / AsyncService.__init__: _circuit_breaker_timeout
circuit_breaker_timeout == 60
\* ResponseCache.__init__: ttl default
cache_ttl_default == 300
\* ServiceConfig.timeout / AsyncServiceConfig.timeout default, in seconds
config_timeout == 30
\* ServiceConfig.max_retries default
config_max_retries == 3

(***************************************************************************)
(* Bounds of the model                                                     *)
(***************************************************************************)
\* how many times the clock advances in one behaviour
MaxTicks == 3
\* how far direct calls of _record_failure may push the counter
MaxFailures == 6
\* how many requests a batch holds
MaxBatch == 3
\* the largest max_concurrent a batch is given
MaxConcurrent == 2
\* how many clients the registries create in one behaviour
MaxRegistrations == 3
\* how many threads call the connection manager
NThreads == 2
\* how many tasks of the event loop call the connection manager
NTasks == 3
\* how many sessions close_session removes in one behaviour
MaxCloses == 2
\* how many requests the application records in the monitor itself
MaxRecords == 2
\* how often each decorated function is called
MaxWrappedCalls == 2
\* how many record_request calls are made one after the other
MaxLog == 4

(***************************************************************************)
(* Python values                                                           *)
(***************************************************************************)
NoneVal == [isNone |-> TRUE]

\* a dict with the given items, in insertion order
Dict(items) == [isNone |-> FALSE, items |-> items]

DictKeys == {"a", "b"}
\* values by their repr(): the int 1 and the str 'x'
IntVals == {"1", "2", "3", "4"}
StrVals == {"'x'"}
\* the values the enumerated dicts hold
DictVals == {"1", "'x'"}

\* all item sequences with pairwise distinct keys
ItemSeqs ==
    {<<>>}
    \cup {<< <<k, v>> >> : k \in DictKeys, v \in DictVals}
    \cup {<< <<ks[1], v1>>, <<ks[2], v2>> >> :
            ks \in {q \in DictKeys \X DictKeys : q[1] # q[2]},
            v1 \in DictVals, v2 \in DictVals}

AllDicts == {Dict(s) : s \in ItemSeqs}
DictOrNone == AllDicts \cup {NoneVal}

HasKey(d, k) == \E i \in 1..Len(d.items) : d.items[i][1] = k
Lookup(d, k) == LET i == CHOOSE i \in 1..Len(d.items) : d.items[i][1] = k
                IN  d.items[i][2]
ItemSet(d) == {d.items[i] : i \in 1..Len(d.items)}

\* dict equality in Python: same key/value pairs, whatever the insertion order
SameMapping(x, y) ==
    \/ x.isNone /\ y.isNone
    \/ ~x.isNone /\ ~y.isNone /\ ItemSet(x) = ItemSet(y)

(***************************************************************************)
(* Schema validation: check_proto / dacite.from_dict                       *)
(* A proto is a function from its required field names to "int" or "str".  *)
(***************************************************************************)
TypeOf(v) == IF v \in IntVals THEN "int" ELSE "str"

\* from_dict raises on a missing required field or a value of the wrong type;
\* keys the dataclass does not declare are ignored
FromDictRaises(proto, data) ==
    \E f \in DOMAIN proto : ~HasKey(data, f) \/ TypeOf(Lookup(data, f)) # proto[f]

\* the typed object from_dict builds: one attribute per declared field
from_dict(proto, data) == [f \in DOMAIN proto |-> Lookup(data, f)]

check_proto(data, proto) == ~FromDictRaises(proto, data)

(***************************************************************************)
(* Cache key: EnhancedService._generate_cache_key                          *)
(***************************************************************************)
RECURSIVE ItemsStr(_)
ItemsStr(items) ==
    IF items = <<>> THEN <<>>
    ELSE LET h == Head(items)
             one == <<"'" \o h[1] \o "'", ": ", h[2]>>
         IN  IF Len(items) = 1 THEN one
             ELSE one \o <<", ">> \o ItemsStr(Tail(items))

\* str(x) as the f-string renders it, as a sequence of text pieces
PyStr(x) == IF x.isNone THEN <<"None">> ELSE <<"{">> \o ItemsStr(x.items) \o <<"}">>

\* hashlib.md5(...).hexdigest(): the digest stands for the text it was computed
\* from; two different texts are taken to have different digests
md5_hexdigest(content) == [md5 |-> content]

generate_cache_key(service_url, params, json_data, data) ==
    LET content == <<service_url, ":">> \o PyStr(params) \o <<":">> \o PyStr(json_data)
                   \o <<":">> \o PyStr(data)
    IN  md5_hexdigest(content)

VARIABLES
    now,            \* time.time()
    ticks,          \* how often the clock has advanced
    variant,        \* the client under test: "blocking" (EnhancedService) | "nonblocking" (AsyncService)
    svc,            \* the client's breaker fields: [failures, last_failure]
    cache,          \* the blocking client's ResponseCache: [cache, timestamps, ttl]
    sessions,       \* the connection manager's _sessions: service name -> session id
    last,           \* observer: what the most recent operation was given and returned
    streak,         \* observer: failures recorded in a row [n], and when the last one was [at]
    ins,            \* observer (SpecCache): per key, the latest set() not yet cleared
    key_args,       \* SpecKey: the two argument sets whose keys are computed
    key_out,        \* SpecKey: the two keys
    key_pc,         \* SpecKey: "start" | "done"
    b_reqs,         \* batch_call: the requests, in order
    b_max,          \* batch_call: max_concurrent
    b_sem,          \* batch_call: the semaphore's value
    b_pc,           \* batch_call: where each member task is
    b_out,          \* batch_call: what each member's call returned or raised
    b_remote,       \* observer: what the remote end answered to each member
    b_results,      \* batch_call: the list returned
    b_state,        \* batch_call: "off" | "running" | "returned"
    r_services,     \* ServiceRegistry._services: name -> client
    r_async,        \* AsyncServiceRegistry._services: name -> client
    r_next,         \* the id the next client object gets
    r_latest,       \* observer: per registry, the config last registered under each name
    r_replaced,     \* observer: per registry, the names registered again with another config
    p_sessions,     \* SpecPool: ConnectionManager._sessions: name -> session id
    p_pc,           \* SpecPool: where each thread is in get_session
    p_name,         \* SpecPool: the service_name each thread asked for
    p_local,        \* SpecPool: each thread's local `session`
    p_ret,          \* SpecPool: what get_session returned to each thread
    p_created,      \* SpecPool: how many sessions were created for each name
    p_closed,       \* SpecPool: how many sessions close_session removed, per name
    p_handed,       \* observer: per name, the sessions get_session returned since the name's last removal
    a_sessions,     \* AsyncConnectionManager._sessions: name -> session id
    a_lock,         \* AsyncConnectionManager._lock: 0 (free) or the task that holds it
    a_pc,           \* where each task is in get_session / close_session
    a_name,         \* the service_name each task passed
    a_ret,          \* what the task's last operation was and gave
    a_created,      \* how many sessions were created for each name
    a_closed,       \* how many sessions were removed for each name
    g_lock,         \* ServiceRegistry._lock: 0 (free) or the thread that holds it
    g_pc,           \* where each thread is in register / get_service / list_services
    g_arg,          \* the config each thread passed to register
    g_local,        \* register's local `service`
    k_pc,           \* where each thread is in a call that fails
    k_tmp,          \* the counter value a thread loaded for `+= 1`
    k_base,         \* observer: the counter when the threads started
    m_metrics,      \* ServiceMonitor.metrics: [names: name -> entry, objs: the entries' counters]
    m_pc,           \* where each thread is in record_request
    m_arg,          \* the (service_name, success, response_time) each thread passed
    m_tmp,          \* each thread's local `metrics` (an entry) and the value it loaded for `+= 1`
    d_wrapped,      \* per registry, the wrapper its decorator made: [at, raised, calls]
    c_call,         \* per caller, the blocking call it is in: where it is (pc), what it was
                    \* given, what it has so far, and the steps it has run (trace)
    m_log,          \* observer: the record_request calls made so far, in order
    p_shut,         \* observer: the sessions close_session has closed, as <<name, id>>
    r_objs          \* the client objects made so far, by id: callers may still hold them

keyVars == <<key_args, key_out, key_pc>>
clockVars == <<now, ticks>>
clientVars == <<variant, svc, cache, sessions, last, streak, ins>>
batchVars == <<b_reqs, b_max, b_sem, b_pc, b_out, b_remote, b_results, b_state>>
vars == <<now, ticks, variant, svc, cache, sessions, last, streak, ins,
          key_args, key_out, key_pc,
          b_reqs, b_max, b_sem, b_pc, b_out, b_remote, b_results, b_state,
          r_services, r_async, r_next, r_latest, r_replaced,
          p_sessions, p_pc, p_name, p_local, p_ret, p_created, p_closed, p_handed,
          a_sessions, a_lock, a_pc, a_name, a_ret, a_created, a_closed,
          g_lock, g_pc, g_arg, g_local,
          k_pc, k_tmp, k_base,
          m_metrics, m_pc, m_arg, m_tmp,
          d_wrapped, c_call, m_log, p_shut, r_objs>>
regVars == <<r_services, r_async, r_next, r_latest, r_replaced>>
poolVars == <<p_sessions, p_pc, p_name, p_local, p_ret, p_created, p_closed, p_handed>>
apoolVars == <<a_sessions, a_lock, a_pc, a_name, a_ret, a_created, a_closed>>
rthreadVars == <<g_lock, g_pc, g_arg, g_local>>
bthreadVars == <<k_pc, k_tmp, k_base>>
monVars == <<m_metrics, m_pc, m_arg, m_tmp>>
decVars == <<d_wrapped>>
\* the groups added after the monitor
stepVars == <<c_call>>
tailVars == <<m_log>>
shutVars == <<p_shut>>
objVars == <<r_objs>>
lateVars == <<decVars, stepVars, tailVars, shutVars, objVars>>
extVars == <<apoolVars, rthreadVars, bthreadVars, monVars, lateVars>>
coreVars == <<variant, svc, cache, sessions, streak, ins>>

ServiceUrl == "http://svc/api"
ServiceName == "svc"

\* ServiceConfig.input_proto / output_proto of the service under test:
\* dataclasses with one required int field
input_proto == ("a" :> "int")
output_proto == ("a" :> "int")

(***************************************************************************)
(* ResponseCache                                                           *)
(***************************************************************************)
EmptyMap == [k \in {} |-> NoneVal]

\* ResponseCache.__init__
ResponseCache_init(ttl) == [cache |-> EmptyMap, timestamps |-> EmptyMap, ttl |-> ttl]

DropKey(f, k) == [x \in DOMAIN f \ {k} |-> f[x]]

\* a get that still serves an entry whose age equals the ttl
ResponseCache_get_le(c, key, t) ==
    IF key \in DOMAIN c.cache
    THEN IF t - c.timestamps[key] <= c.ttl
         THEN [ret |-> c.cache[key], cache |-> c]
         ELSE [ret |-> NoneVal,
               cache |-> [c EXCEPT !.cache = DropKey(c.cache, key),
                                   !.timestamps = DropKey(c.timestamps, key)]]
    ELSE [ret |-> NoneVal, cache |-> c]

\* ResponseCache.get at time t: the value returned and the cache afterwards
ResponseCache_get(c, key, t) ==
    IF key \in DOMAIN c.cache
    THEN IF t - c.timestamps[key] < c.ttl
         THEN [ret |-> c.cache[key], cache |-> c]
         ELSE [ret |-> NoneVal,
               cache |-> [c EXCEPT !.cache = DropKey(c.cache, key),
                                   !.timestamps = DropKey(c.timestamps, key)]]
    ELSE [ret |-> NoneVal, cache |-> c]

\* ResponseCache.set at time t
ResponseCache_set(c, key, value, t) ==
    [c EXCEPT !.cache = (key :> value) @@ c.cache,
              !.timestamps = (key :> t) @@ c.timestamps]

\* ResponseCache.clear
ResponseCache_clear(c) == [c EXCEPT !.cache = EmptyMap, !.timestamps = EmptyMap]

(***************************************************************************)
(* Circuit breaker of the blocking client (EnhancedService)                *)
(* s is [failures, last_failure]; t is time.time()                         *)
(***************************************************************************)
\* EnhancedService.__init__
EnhancedService_init == [failures |-> 0, last_failure |-> 0]

\* a breaker that trips only above the threshold
is_circuit_breaker_open_gt(s, t) ==
    IF s.failures > circuit_breaker_threshold
    THEN IF t - s.last_failure < circuit_breaker_timeout
         THEN [ret |-> TRUE, svc |-> s]
         ELSE [ret |-> FALSE, svc |-> [s EXCEPT !.failures = 0]]
    ELSE [ret |-> FALSE, svc |-> s]

\* a breaker that closes after the open-duration without clearing its counter
is_circuit_breaker_open_no_reset(s, t) ==
    IF s.failures >= circuit_breaker_threshold
    THEN IF t - s.last_failure < circuit_breaker_timeout
         THEN [ret |-> TRUE, svc |-> s]
         ELSE [ret |-> FALSE, svc |-> s]
    ELSE [ret |-> FALSE, svc |-> s]

\* _is_circuit_breaker_open: the value returned and the fields afterwards
is_circuit_breaker_open(s, t) ==
    IF s.failures >= circuit_breaker_threshold
    THEN IF t - s.last_failure < circuit_breaker_timeout
         THEN [ret |-> TRUE, svc |-> s]
         ELSE [ret |-> FALSE, svc |-> [s EXCEPT !.failures = 0]]
    ELSE [ret |-> FALSE, svc |-> s]

\* a failure counted without its time
record_failure_no_stamp(s, t) == [s EXCEPT !.failures = s.failures + 1]

\* _record_failure
record_failure(s, t) == [s EXCEPT !.failures = s.failures + 1, !.last_failure = t]

\* a success that only takes one failure off the counter
record_success_decay(s) == [s EXCEPT !.failures = IF s.failures > 0 THEN s.failures - 1 ELSE 0]

\* _record_success
record_success(s) == [s EXCEPT !.failures = 0]

(***************************************************************************)
(* Circuit breaker of the non-blocking client (AsyncService)               *)
(***************************************************************************)
\* AsyncService.__init__
AsyncService_init == [failures |-> 0, last_failure |-> 0]

async_is_circuit_breaker_open(s, t) ==
    IF s.failures >= circuit_breaker_threshold
    THEN IF t - s.last_failure < circuit_breaker_timeout
         THEN [ret |-> TRUE, svc |-> s]
         ELSE [ret |-> FALSE, svc |-> [s EXCEPT !.failures = 0]]
    ELSE [ret |-> FALSE, svc |-> s]

\* a failure that is counted twice
async_record_failure_twice(s, t) == [s EXCEPT !.failures = s.failures + 2, !.last_failure = t]

\* AsyncService._record_failure
async_record_failure(s, t) == [s EXCEPT !.failures = s.failures + 1, !.last_failure = t]

async_record_success(s) == [s EXCEPT !.failures = 0]

(***************************************************************************)
(* Connection manager, one caller at a time                                *)
(***************************************************************************)
\* ConnectionManager.get_session run to completion: the session map afterwards
\* (session ids count the sessions created so far for the name)
get_session(ss, name) ==
    IF name \notin DOMAIN ss THEN (name :> 1) @@ ss ELSE ss

\* AsyncConnectionManager.get_session run to completion
async_get_session(ss, name) ==
    IF name \notin DOMAIN ss THEN (name :> 1) @@ ss ELSE ss

(***************************************************************************)
(* What the remote end does with a request that reaches it                 *)
(***************************************************************************)
\* a body response.json() cannot decode
Undecodable == [json |-> FALSE]
JsonBody(d) == [json |-> TRUE, data |-> d]

Bodies == {Undecodable,
           JsonBody(Dict(<< <<"a", "1">> >>)),
           JsonBody(Dict(<< <<"a", "2">> >>)),
           JsonBody(Dict(<< <<"a", "'x'">> >>))}

\* requests.exceptions.RequestException / aiohttp errors raised by the exchange
TransportErrors == {"Timeout", "ConnectionError"}
\* everything the exchange can raise: a timeout, a connection error, or an
\* exception of another class (a ValueError from the library)
ExchangeErrors == TransportErrors \cup {"ValueError"}

Responses ==
    {[kind |-> "exception", error |-> e] : e \in ExchangeErrors}
    \cup {[kind |-> "response", status |-> 201, body |-> JsonBody(Dict(<< <<"a", "1">> >>))],
          [kind |-> "response", status |-> 500, body |-> Undecodable]}
    \cup {[kind |-> "response", status |-> 200, body |-> b] : b \in Bodies}

\* no exchange took place
NoResponse == [kind |-> "none"]

\* an except clause that lets timeouts through
is_RequestException_connection_only(error) == error = "ConnectionError"

\* line 336: except requests.exceptions.RequestException
is_RequestException(error) == error \in {"Timeout", "ConnectionError"}

\* async_service.py line 191: except Exception
is_Exception(error) == error \in ExchangeErrors

\* a status check that takes every 2xx for success
status_failed_non_2xx(status_code) == status_code \notin 200..299

\* line 280: response.status_code != 200  (async_service.py line 166)
status_failed(status_code) == status_code # 200

\* a per-call timeout: None, or a number of seconds
Seconds(n) == [isNone |-> FALSE, seconds |-> n]
Timeouts == {NoneVal, Seconds(5)}

\* line 222: timeout = timeout or self.config.timeout, the value handed to the
\* request at line 277
EnhancedService_timeout(timeout) ==
    IF timeout.isNone \/ timeout.seconds = 0 THEN config_timeout ELSE timeout.seconds

\* async_service.py lines 158-164 pass no timeout to the request: the exchange runs
\* under the session's ClientTimeout(total=config.timeout) of line 56
AsyncService_timeout(timeout) == config_timeout

(***************************************************************************)
(* The call arguments the model draws from                                 *)
(***************************************************************************)
CallArgs ==
    { \* a valid JSON body
      [params |-> NoneVal, json_data |-> Dict(<< <<"a", "1">>, <<"b", "'x'">> >>), data |-> NoneVal],
      \* a form body of the wrong type
      [params |-> NoneVal, json_data |-> NoneVal, data |-> Dict(<< <<"a", "'x'">> >>)],
      \* nothing supplied: the empty payload lacks the required field
      [params |-> NoneVal, json_data |-> NoneVal, data |-> NoneVal],
      \* valid params shadowed by an invalid form body
      [params |-> Dict(<< <<"a", "1">> >>), json_data |-> NoneVal, data |-> Dict(<< <<"a", "'x'">> >>)] }

\* a selection that looks at the query parameters first
check_data_params_first(args) ==
    IF ~args.params.isNone THEN args.params
    ELSE IF ~args.json_data.isNone THEN args.json_data
    ELSE IF ~args.data.isNone THEN args.data
    ELSE Dict(<<>>)

\* next((x for x in [data, json_data, params] if x is not None), {})
check_data(args) ==
    IF ~args.data.isNone THEN args.data
    ELSE IF ~args.json_data.isNone THEN args.json_data
    ELSE IF ~args.params.isNone THEN args.params
    ELSE Dict(<<>>)

(***************************************************************************)
(* EnhancedService.__call__, run to completion at time t.                  *)
(* s: breaker fields, c: cache, ss: session map, resp: what the exchange   *)
(* yields if it is started.  The result names the step the call ended in   *)
(* (stage), whether the breaker query said open, whether an HTTP exchange  *)
(* was started (sent), the value returned (ret) and the state afterwards.  *)
(***************************************************************************)
Outcome(stage, open, sent, ret, s, c, ss) ==
    [stage |-> stage, open |-> open, sent |-> sent, ret |-> ret,
     svc |-> s, cache |-> c, sessions |-> ss]

\* a send that stores the result whether or not caching was asked for
EnhancedService_send_always_caches(s, c, ss, t, key, use_cache, resp) ==
    IF resp.kind = "exception"
    THEN IF is_RequestException(resp.error)
         THEN Outcome("Send", FALSE, TRUE, NoneVal, record_failure(s, t), c, ss)
         ELSE Outcome("Raise", FALSE, TRUE, NoneVal, s, c, ss)
    ELSE IF status_failed(resp.status)
    THEN Outcome("CheckStatus", FALSE, TRUE, NoneVal, record_failure(s, t), c, ss)
    ELSE IF ~resp.body.json
    THEN Outcome("ParseBody", FALSE, TRUE, NoneVal, record_failure(s, t), c, ss)
    ELSE IF ~check_proto(resp.body.data, output_proto)
    THEN Outcome("ValidateOutput", FALSE, TRUE, NoneVal, record_failure(s, t), c, ss)
    ELSE LET result == from_dict(output_proto, resp.body.data)
         IN  Outcome("Return", FALSE, TRUE, result, record_success(s),
                     ResponseCache_set(c, key, result, t), ss)

\* lines 268-344: the exchange and everything after it
EnhancedService_send(s, c, ss, t, key, use_cache, resp) ==
    IF resp.kind = "exception"
    THEN IF is_RequestException(resp.error)
         THEN Outcome("Send", FALSE, TRUE, NoneVal, record_failure(s, t), c, ss)
         ELSE \* no except clause matches: the exception leaves __call__
              Outcome("Raise", FALSE, TRUE, NoneVal, s, c, ss)
    ELSE IF status_failed(resp.status)
    THEN Outcome("CheckStatus", FALSE, TRUE, NoneVal, record_failure(s, t), c, ss)
    ELSE IF ~resp.body.json
    THEN Outcome("ParseBody", FALSE, TRUE, NoneVal, record_failure(s, t), c, ss)
    ELSE IF ~check_proto(resp.body.data, output_proto)
    THEN Outcome("ValidateOutput", FALSE, TRUE, NoneVal, record_failure(s, t), c, ss)
    ELSE LET result == from_dict(output_proto, resp.body.data)
         IN  Outcome("Return", FALSE, TRUE, result, record_success(s),
                     IF use_cache THEN ResponseCache_set(c, key, result, t) ELSE c, ss)

\* a validation step that logs the failure and goes on to send
EnhancedService_validate_no_return(s, c, ss, t, args, key, use_cache, resp) ==
    EnhancedService_send(s, c, get_session(ss, ServiceName), t, key, use_cache, resp)

\* a validation step that books a rejected input as a failure
EnhancedService_validate_counts_invalid(s, c, ss, t, args, key, use_cache, resp) ==
    IF ~check_proto(check_data(args), input_proto)
    THEN Outcome("ValidateInput", FALSE, FALSE, NoneVal, record_failure(s, t), c, ss)
    ELSE EnhancedService_send(s, c, get_session(ss, ServiceName), t, key, use_cache, resp)

\* lines 232-246: input validation, then the session
EnhancedService_validate(s, c, ss, t, args, key, use_cache, resp) ==
    IF ~check_proto(check_data(args), input_proto)
    THEN Outcome("ValidateInput", FALSE, FALSE, NoneVal, s, c, ss)
    ELSE EnhancedService_send(s, c, get_session(ss, ServiceName), t, key, use_cache, resp)

\* a call that counts the short-circuit as one more failure
EnhancedService_call_counts_open(s, c, ss, t, args, use_cache, resp) ==
    LET q == is_circuit_breaker_open(s, t)
        key == generate_cache_key(ServiceUrl, args.params, args.json_data, args.data)
        g == ResponseCache_get(c, key, t)
    IN  IF q.ret
        THEN Outcome("CheckBreaker", TRUE, FALSE, NoneVal, record_failure(q.svc, t), c, ss)
        ELSE IF use_cache /\ g.ret # NoneVal
        THEN Outcome("CheckCache", FALSE, FALSE, g.ret, q.svc, g.cache, ss)
        ELSE EnhancedService_validate(q.svc, IF use_cache THEN g.cache ELSE c, ss, t,
                                      args, key, use_cache, resp)

\* a call that books a cache hit as a success
EnhancedService_call_hit_resets(s, c, ss, t, args, use_cache, resp) ==
    LET q == is_circuit_breaker_open(s, t)
        key == generate_cache_key(ServiceUrl, args.params, args.json_data, args.data)
        g == ResponseCache_get(c, key, t)
    IN  IF q.ret
        THEN Outcome("CheckBreaker", TRUE, FALSE, NoneVal, q.svc, c, ss)
        ELSE IF use_cache /\ g.ret # NoneVal
        THEN Outcome("CheckCache", FALSE, FALSE, g.ret, record_success(q.svc), g.cache, ss)
        ELSE EnhancedService_validate(q.svc, IF use_cache THEN g.cache ELSE c, ss, t,
                                      args, key, use_cache, resp)

\* lines 216-246: breaker check, timeout default, cache lookup, then validation
EnhancedService_call(s, c, ss, t, args, use_cache, resp) ==
    LET q == is_circuit_breaker_open(s, t)
        key == generate_cache_key(ServiceUrl, args.params, args.json_data, args.data)
        g == ResponseCache_get(c, key, t)
    IN  IF q.ret
        THEN Outcome("CheckBreaker", TRUE, FALSE, NoneVal, q.svc, c, ss)
        ELSE IF use_cache /\ g.ret # NoneVal
        THEN Outcome("CheckCache", FALSE, FALSE, g.ret, q.svc, g.cache, ss)
        ELSE EnhancedService_validate(q.svc, IF use_cache THEN g.cache ELSE c, ss, t,
                                      args, key, use_cache, resp)

(***************************************************************************)
(* AsyncService.__call__, run to completion at time t                      *)
(***************************************************************************)
AsyncOutcome(stage, open, sent, ret, s, ss) ==
    [stage |-> stage, open |-> open, sent |-> sent, ret |-> ret, svc |-> s, sessions |-> ss]

\* a body that is returned without output validation
AsyncService_on_body_unvalidated(s, ss, t, body) ==
    IF ~body.json
    THEN AsyncOutcome("ParseBody", FALSE, TRUE, NoneVal, async_record_failure(s, t), ss)
    ELSE AsyncOutcome("Return", FALSE, TRUE, body.data, async_record_success(s), ss)

\* lines 171-189: the body is read, validated and returned
AsyncService_on_body(s, ss, t, body) ==
    IF ~body.json
    THEN AsyncOutcome("ParseBody", FALSE, TRUE, NoneVal, async_record_failure(s, t), ss)
    ELSE IF ~check_proto(body.data, output_proto)
    THEN AsyncOutcome("ValidateOutput", FALSE, TRUE, NoneVal, async_record_failure(s, t), ss)
    ELSE AsyncOutcome("Return", FALSE, TRUE, from_dict(output_proto, body.data),
                      async_record_success(s), ss)

\* lines 156-169, 191-194: the exchange raised, or answered with a status; with
\* status 200 the call goes on to `await response.json()` (stage "ReadBody")
AsyncService_on_response(s, ss, t, resp) ==
    IF resp.kind = "exception"
    THEN IF is_Exception(resp.error)
         THEN AsyncOutcome("Send", FALSE, TRUE, NoneVal, async_record_failure(s, t), ss)
         ELSE AsyncOutcome("Raise", FALSE, TRUE, NoneVal, s, ss)
    ELSE IF status_failed(resp.status)
    THEN AsyncOutcome("CheckStatus", FALSE, TRUE, NoneVal, async_record_failure(s, t), ss)
    ELSE AsyncOutcome("ReadBody", FALSE, TRUE, NoneVal, s, ss)

\* lines 156-194, no other task running in between
AsyncService_send(s, ss, t, resp) ==
    LET r == AsyncService_on_response(s, ss, t, resp)
    IN  IF r.stage = "ReadBody" THEN AsyncService_on_body(s, ss, t, resp.body) ELSE r

AsyncService_call(s, ss, t, args, resp) ==
    LET q == async_is_circuit_breaker_open(s, t)
    IN  IF q.ret
        THEN AsyncOutcome("CheckBreaker", TRUE, FALSE, NoneVal, q.svc, ss)
        ELSE IF ~check_proto(check_data(args), input_proto)
        THEN AsyncOutcome("ValidateInput", FALSE, FALSE, NoneVal, q.svc, ss)
        ELSE AsyncService_send(q.svc, async_get_session(ss, ServiceName), t, resp)


(***************************************************************************)
(* Spec: one client (of either class) used by one caller at a time         *)
(***************************************************************************)
\* the registries are not in use
RegIdle ==
    /\ r_services = <<>> /\ r_async = <<>> /\ r_next = 0
    /\ r_latest = <<>> /\ r_replaced = <<>>

\* the connection manager is not called from threads
PoolIdle ==
    /\ p_sessions = <<>> /\ p_pc = <<>> /\ p_name = <<>> /\ p_local = <<>>
    /\ p_ret = <<>> /\ p_created = <<>> /\ p_closed = <<>> /\ p_handed = <<>>

\* the event-loop connection manager is not in use
APoolIdle ==
    /\ a_sessions = <<>> /\ a_lock = 0 /\ a_pc = <<>> /\ a_name = <<>>
    /\ a_ret = <<>> /\ a_created = <<>> /\ a_closed = <<>>

\* no thread is inside the registry
RThreadIdle ==
    g_lock = 0 /\ g_pc = <<>> /\ g_arg = <<>> /\ g_local = <<>>

\* no thread is inside a client call
BThreadIdle == k_pc = <<>> /\ k_tmp = <<>> /\ k_base = 0

\* the monitor is not in use
MonIdle ==
    m_metrics = <<>> /\ m_pc = <<>> /\ m_arg = <<>> /\ m_tmp = <<>>

\* no function has been decorated
DecIdle == d_wrapped = <<>>

\* no caller is inside a step-by-step call
StepIdle == c_call = <<>>

\* nothing has been recorded in the observers of the later specifications
TailIdle == m_log = <<>> /\ p_shut = {} /\ r_objs = <<>>

LateIdle == DecIdle /\ StepIdle /\ TailIdle

ExtIdle == APoolIdle /\ RThreadIdle /\ BThreadIdle /\ MonIdle /\ LateIdle

\* no batch_call is running
BatchIdle ==
    /\ b_reqs = <<>> /\ b_max = 0 /\ b_sem = 0 /\ b_pc = <<>> /\ b_out = <<>>
    /\ b_remote = <<>> /\ b_results = <<>> /\ b_state = "off"

\* the key computation is not running
KeyIdle == key_args = <<>> /\ key_out = <<>> /\ key_pc = "off"

FailStages == {"Send", "CheckStatus", "ParseBody", "ValidateOutput"}

\* the clock steps that put a query just inside and just outside the open window
BreakerSteps == {1, circuit_breaker_timeout - 1}

\* observer: the streak of recorded failures after a breaker query at time t
\* (a query that finds the open window over ends the streak) ...
StreakAfterQuery(st, t) ==
    IF st.n >= circuit_breaker_threshold /\ t - st.at >= circuit_breaker_timeout
    THEN [st EXCEPT !.n = 0] ELSE st
\* ... and after a call that ended in the given stage
StreakAfterStage(st, stage, t) ==
    IF stage \in FailStages THEN [n |-> st.n + 1, at |-> t]
    ELSE IF stage = "Return" THEN [st EXCEPT !.n = 0]
    ELSE st

Tripped == streak.n >= circuit_breaker_threshold
Elapsed == now - streak.at >= circuit_breaker_timeout

ClientIdle ==
    /\ variant = "blocking"
    /\ svc = EnhancedService_init
    /\ cache = ResponseCache_init(cache_ttl_default)
    /\ sessions = EmptyMap
    /\ last = [op |-> "init"]
    /\ streak = [n |-> 0, at |-> 0]
    /\ ins = EmptyMap

Init ==
    /\ now = 0 /\ ticks = 0
    /\ variant \in {"blocking", "nonblocking"}
    /\ svc = IF variant = "blocking" THEN EnhancedService_init ELSE AsyncService_init
    /\ cache = ResponseCache_init(cache_ttl_default)
    /\ sessions = EmptyMap
    /\ last = [op |-> "init"]
    /\ streak = [n |-> 0, at |-> 0]
    /\ ins = EmptyMap
    /\ KeyIdle
    /\ ExtIdle
    /\ BatchIdle
    /\ RegIdle
    /\ PoolIdle

\* time passes between two operations
Tick(d) ==
    /\ ticks < MaxTicks
    /\ now' = now + d
    /\ ticks' = ticks + 1
    /\ last' = [op |-> "tick"]
    /\ UNCHANGED <<variant, svc, cache, sessions, streak, ins, keyVars, batchVars, regVars, poolVars, extVars>>

\* a caller asks the breaker: _is_circuit_breaker_open()
BreakerQuery ==
    LET q == IF variant = "blocking" THEN is_circuit_breaker_open(svc, now)
             ELSE async_is_circuit_breaker_open(svc, now)
    IN  /\ svc' = q.svc
        /\ last' = [op |-> "is_open", open |-> q.ret, tripped |-> Tripped, elapsed |-> Elapsed]
        /\ streak' = StreakAfterQuery(streak, now)
        /\ UNCHANGED <<clockVars, variant, cache, sessions, ins, keyVars, batchVars, regVars, poolVars, extVars>>

\* _record_failure()
RecordFailure ==
    /\ svc.failures < MaxFailures
    /\ svc' = IF variant = "blocking" THEN record_failure(svc, now)
              ELSE async_record_failure(svc, now)
    /\ last' = [op |-> "record_failure", prior |-> svc.failures]
    /\ streak' = [n |-> streak.n + 1, at |-> now]
    /\ UNCHANGED <<clockVars, variant, cache, sessions, ins, keyVars, batchVars, regVars, poolVars, extVars>>

\* _record_success()
RecordSuccess ==
    /\ svc' = IF variant = "blocking" THEN record_success(svc)
              ELSE async_record_success(svc)
    /\ last' = [op |-> "record_success", prior |-> svc.failures]
    /\ streak' = [streak EXCEPT !.n = 0]
    /\ UNCHANGED <<clockVars, variant, cache, sessions, ins, keyVars, batchVars, regVars, poolVars, extVars>>

\* observer: what a call was given, its cache key, whether the cache held an entry,
\* expired or not, under that key (held), the unexpired entry the key had (cached),
\* what the remote end did if the call reached it, the timeout its exchange ran
\* under, and how the call ended
CallRecord(o, args, use_cache, timeout, resp) ==
    [op |-> "call", stage |-> o.stage, open |-> o.open, sent |-> o.sent, ret |-> o.ret,
     raised |-> o.stage = "Raise",
     input_ok |-> check_proto(check_data(args), input_proto), use_cache |-> use_cache,
     key |-> generate_cache_key(ServiceUrl, args.params, args.json_data, args.data),
     held |-> generate_cache_key(ServiceUrl, args.params, args.json_data, args.data)
                 \in DOMAIN cache.cache,
     timeout |-> timeout,
     cached |-> IF variant = "blocking" /\ use_cache
                THEN ResponseCache_get(cache, generate_cache_key(ServiceUrl, args.params,
                                              args.json_data, args.data), now).ret
                ELSE NoneVal,
     bound |-> IF ~o.sent THEN 0
               ELSE IF variant = "blocking" THEN EnhancedService_timeout(timeout)
               ELSE AsyncService_timeout(timeout),
     resp |-> IF o.sent THEN resp ELSE NoResponse,
     tripped |-> Tripped, elapsed |-> Elapsed]

\* service(timeout=..., params=..., json_data=..., data=..., use_cache=...) on the
\* blocking client, the timeout taken from the given set
EnhancedCallWith(timeouts) ==
    /\ variant = "blocking"
    /\ \E args \in CallArgs, use_cache \in BOOLEAN, resp \in Responses, timeout \in timeouts :
         \E o \in {EnhancedService_call(svc, cache, sessions, now, args, use_cache, resp)} :
             /\ svc' = o.svc
             /\ cache' = o.cache
             /\ sessions' = o.sessions
             /\ last' = CallRecord(o, args, use_cache, timeout, resp)
             /\ streak' = StreakAfterStage(StreakAfterQuery(streak, now), o.stage, now)
    /\ UNCHANGED <<clockVars, variant, ins, keyVars, batchVars, regVars, poolVars, extVars>>

\* a call of the blocking client that leaves the timeout at its default
EnhancedCall == EnhancedCallWith({NoneVal})

\* await service(timeout=..., params=..., json_data=..., data=...) on the
\* non-blocking client
AsyncCallWith(timeouts) ==
    /\ variant = "nonblocking"
    /\ \E args \in CallArgs, resp \in Responses, timeout \in timeouts :
         \E o \in {AsyncService_call(svc, sessions, now, args, resp)} :
             /\ svc' = o.svc
             /\ sessions' = o.sessions
             /\ last' = CallRecord(o, args, FALSE, timeout, resp)
             /\ streak' = StreakAfterStage(StreakAfterQuery(streak, now), o.stage, now)
    /\ UNCHANGED <<clockVars, variant, cache, ins, keyVars, batchVars, regVars, poolVars, extVars>>

AsyncCall == AsyncCallWith({NoneVal})

Next ==
    \/ \E d \in BreakerSteps : Tick(d)
    \/ BreakerQuery
    \/ RecordFailure
    \/ RecordSuccess
    \/ EnhancedCall
    \/ AsyncCall

Spec == Init /\ [][Next]_vars

\* the breaker is Open in the current state: counter at or over the threshold and
\* the open-duration not yet over since the last failure
BreakerIsOpen ==
    /\ svc.failures >= circuit_breaker_threshold
    /\ now - svc.last_failure < circuit_breaker_timeout

\* C1: after N >= threshold failures recorded in a row, a breaker query (direct, or
\* the one a call makes) reports Open while less than the open-duration has passed
\* since the last recorded failure; the first query after that reports Closed, leaves
\* the counter reset to 0, and a call that made the query goes on past the breaker
\* check (so the counter afterwards is 0, or 1 if that call itself failed).
C1_BreakerWindow ==
    (last.op \in {"is_open", "call"} /\ last.tripped) =>
        IF ~last.elapsed
        THEN /\ last.open
             /\ last.op = "call" => last.stage = "CheckBreaker"
        ELSE /\ ~last.open
             /\ last.op = "is_open" => svc.failures = 0
             /\ last.op = "call" =>
                    /\ last.stage # "CheckBreaker"
                    /\ svc.failures = IF last.stage \in FailStages THEN 1 ELSE 0

\* a call made after the open window of a tripped breaker reached the transport
C1_Witness ==
    /\ last.op = "call" /\ last.tripped /\ last.elapsed
    /\ ~last.open /\ last.sent
    /\ streak.n <= 1

\* C2: recordSuccess leaves the failure counter at 0, whatever it was before, in
\* the blocking and in the non-blocking client.
C2_RecordSuccessResets ==
    last.op = "record_success" => svc.failures = 0

\* a success recorded on a counter that stood above the threshold
C2_Witness ==
    /\ last.op = "record_success"
    /\ last.prior > circuit_breaker_threshold
    /\ svc.failures = 0

\* C3: a call made while the breaker is Open returns None, starts no HTTP exchange
\* and leaves the failure counter and the last-failure timestamp as they were.
C3_OpenShortCircuits ==
    [][(last'.op = "call" /\ BreakerIsOpen) =>
          /\ last'.ret = NoneVal
          /\ ~last'.sent
          /\ svc'.failures = svc.failures
          /\ svc'.last_failure = svc.last_failure]_vars

\* a call was short-circuited by an Open breaker
C3_Witness ==
    /\ last.op = "call" /\ last.open /\ last.stage = "CheckBreaker"
    /\ BreakerIsOpen

\* C9: a call whose input payload fails schema validation returns None and starts
\* no HTTP exchange, in the blocking and in the non-blocking client.
C9_InvalidInputNoTransport ==
    (last.op = "call" /\ ~last.input_ok) => (last.ret = NoneVal /\ ~last.sent)

\* a call was rejected by input validation (the breaker let it through)
C9_Witness ==
    /\ last.op = "call" /\ ~last.input_ok /\ last.stage = "ValidateInput"
    /\ last.ret = NoneVal /\ ~last.sent

(***************************************************************************)
(* SpecCache: a ResponseCache used directly                                *)
(***************************************************************************)
CacheKeys == {md5_hexdigest(<<"k1">>), md5_hexdigest(<<"k2">>)}
CacheValues == {from_dict(output_proto, Dict(<< <<"a", "1">> >>)),
                from_dict(output_proto, Dict(<< <<"a", "2">> >>))}

\* the clock steps that put a get just inside and just outside the ttl
CacheSteps == {1, cache_ttl_default - 1}

CacheInit ==
    /\ now = 0 /\ ticks = 0
    /\ ClientIdle
    /\ KeyIdle
    /\ ExtIdle
    /\ BatchIdle
    /\ RegIdle
    /\ PoolIdle

\* cache.set(key, value)
CacheSet(key, value) ==
    /\ cache' = ResponseCache_set(cache, key, value, now)
    /\ ins' = (key :> [v |-> value, t |-> now]) @@ ins
    /\ last' = [op |-> "cache_set", key |-> key]
    /\ UNCHANGED <<clockVars, variant, svc, sessions, streak, keyVars, batchVars, regVars, poolVars, extVars>>

\* cache.get(key)
CacheGet(key) ==
    /\ \E g \in {ResponseCache_get(cache, key, now)} :
          /\ cache' = g.cache
          /\ last' = [op |-> "cache_get", key |-> key, ret |-> g.ret,
                      had |-> key \in DOMAIN cache.cache]
    /\ UNCHANGED <<clockVars, variant, svc, sessions, streak, ins, keyVars, batchVars, regVars, poolVars, extVars>>

\* cache.clear()
CacheClear ==
    /\ cache' = ResponseCache_clear(cache)
    /\ ins' = EmptyMap
    /\ last' = [op |-> "cache_clear"]
    /\ UNCHANGED <<clockVars, variant, svc, sessions, streak, keyVars, batchVars, regVars, poolVars, extVars>>

CacheNext ==
    \/ \E d \in CacheSteps : Tick(d)
    \/ \E k \in CacheKeys, v \in CacheValues : CacheSet(k, v)
    \/ \E k \in CacheKeys : CacheGet(k)
    \/ CacheClear

SpecCache == CacheInit /\ [][CacheNext]_vars

\* C4: after set(k, v), a get(k) made while now - insertion < ttl returns v; a
\* get(k) made once ttl has passed returns None and leaves no entry for k (so a
\* later get(k) returns None as well).
C4_CacheRoundTrip ==
    (last.op = "cache_get" /\ last.key \in DOMAIN ins) =>
        LET e == ins[last.key]
        IN  IF now - e.t < cache_ttl_default
            THEN last.ret = e.v
            ELSE /\ last.ret = NoneVal
                 /\ last.key \notin DOMAIN cache.cache
                 /\ last.key \notin DOMAIN cache.timestamps

\* a get found the entry expired and removed it
C4_Witness ==
    /\ last.op = "cache_get" /\ last.key \in DOMAIN ins /\ last.had
    /\ now - ins[last.key].t >= cache_ttl_default
    /\ last.ret = NoneVal
    /\ last.key \notin DOMAIN cache.cache

(***************************************************************************)
(* SpecBatch: AsyncService.batch_call on one event loop.                   *)
(* Each member task is at "waiting" (before the semaphore), "send" (the    *)
(* exchange is awaited), "read_body" (response.json() is awaited) or       *)
(* "done".  Everything a task does between two awaits is one step.         *)
(***************************************************************************)
\* what a batch member is: arguments the call accepts and the schema accepts,
\* arguments the schema rejects, or arguments __call__ does not take (the call
\* raises TypeError)
RequestKinds == {"good", "invalid", "raises"}

RequestArgs(kind) ==
    IF kind = "good"
    THEN [params |-> NoneVal, json_data |-> Dict(<< <<"a", "1">> >>), data |-> NoneVal]
    ELSE [params |-> NoneVal, json_data |-> NoneVal, data |-> Dict(<< <<"a", "'x'">> >>)]

\* the remote end answers request i with a body that names i
EchoVals == <<"1", "2", "3", "4">>
EchoBody(i) == JsonBody(Dict(<< <<"a", EchoVals[i]>> >>))

BatchResponses(i) ==
    { [kind |-> "exception", error |-> "Timeout"],
      [kind |-> "response", status |-> 500, body |-> Undecodable],
      [kind |-> "response", status |-> 200, body |-> Undecodable],
      [kind |-> "response", status |-> 200, body |-> JsonBody(Dict(<< <<"a", "'x'">> >>))],
      [kind |-> "response", status |-> 200, body |-> EchoBody(i)] }

\* what `await self(**request_data)` gave: a value (None included) or an exception
Returned(v) == [exc |-> FALSE, value |-> v]
Raised == [exc |-> TRUE, value |-> [exception |-> "TypeError"]]

\* a gate that lets one call too many in
batch_semaphore_plus_one(max_concurrent) == max_concurrent + 1

\* asyncio.Semaphore(max_concurrent)
batch_semaphore(max_concurrent) == max_concurrent

\* an exit from `async with semaphore` that keeps the permit
semaphore_release_lost(sem) == sem

\* line 205: leaving `async with semaphore` gives the permit back
semaphore_release(sem) == sem + 1

\* results handed back as gather gave them, exceptions included
processed_result_raw(r) == r.value

\* lines 211-218: an exception among gather's results becomes None
processed_result(r) == IF r.exc THEN NoneVal ELSE r.value

Members == 1..Len(b_reqs)
InFlight == {i \in Members : b_pc[i] \in {"send", "read_body"}}

\* batch_call(requests, max_concurrent) has built its semaphore and its tasks; the
\* client may already have failures on its counter
BatchInit ==
    /\ now = 0 /\ ticks = 0
    /\ variant = "nonblocking"
    /\ \E f \in {0, circuit_breaker_threshold - 1} :
          svc = [AsyncService_init EXCEPT !.failures = f]
    /\ cache = ResponseCache_init(cache_ttl_default)
    /\ sessions = EmptyMap
    /\ last = [op |-> "init"]
    /\ streak = [n |-> 0, at |-> 0]
    /\ ins = EmptyMap
    /\ KeyIdle
    /\ ExtIdle
    /\ RegIdle
    /\ PoolIdle
    /\ b_reqs \in [1..MaxBatch -> RequestKinds]
    /\ b_max \in 1..MaxConcurrent
    /\ b_sem = batch_semaphore(b_max)
    /\ b_pc = [i \in 1..MaxBatch |-> "waiting"]
    /\ b_out = [i \in 1..MaxBatch |-> Raised]
    /\ b_remote = [i \in 1..MaxBatch |-> NoResponse]
    /\ b_results = <<>>
    /\ b_state = "running"

batchFrame == <<clockVars, variant, cache, last, streak, ins, keyVars, regVars, poolVars, extVars, b_reqs, b_max>>

\* task i passes `async with semaphore` and runs self(**request_data) up to its
\* first await that waits for the network
BatchAdmit(i) ==
    /\ b_state = "running"
    /\ b_pc[i] = "waiting"
    /\ b_sem > 0
    /\ \E q \in {async_is_circuit_breaker_open(svc, now)} :
         IF b_reqs[i] = "raises"
         THEN \* the call raises before its body runs; the semaphore is released
              /\ b_pc' = [b_pc EXCEPT ![i] = "done"]
              /\ b_out' = [b_out EXCEPT ![i] = Raised]
              /\ UNCHANGED <<svc, sessions, b_sem>>
         ELSE IF q.ret
         THEN /\ b_pc' = [b_pc EXCEPT ![i] = "done"]
              /\ b_out' = [b_out EXCEPT ![i] = Returned(NoneVal)]
              /\ svc' = q.svc
              /\ UNCHANGED <<sessions, b_sem>>
         ELSE IF ~check_proto(check_data(RequestArgs(b_reqs[i])), input_proto)
         THEN /\ b_pc' = [b_pc EXCEPT ![i] = "done"]
              /\ b_out' = [b_out EXCEPT ![i] = Returned(NoneVal)]
              /\ svc' = q.svc
              /\ UNCHANGED <<sessions, b_sem>>
         ELSE /\ b_pc' = [b_pc EXCEPT ![i] = "send"]
              /\ svc' = q.svc
              /\ sessions' = async_get_session(sessions, ServiceName)
              /\ b_sem' = b_sem - 1
              /\ UNCHANGED b_out
    /\ UNCHANGED <<batchFrame, b_remote, b_results, b_state>>

\* the exchange of task i ends: an exception, or a response with its status
BatchResponse(i, resp) ==
    /\ b_state = "running"
    /\ b_pc[i] = "send"
    /\ b_remote' = [b_remote EXCEPT ![i] = resp]
    /\ \E r \in {AsyncService_on_response(svc, sessions, now, resp)} :
         IF r.stage = "ReadBody"
         THEN /\ b_pc' = [b_pc EXCEPT ![i] = "read_body"]
              /\ UNCHANGED <<svc, b_out, b_sem>>
         ELSE /\ b_pc' = [b_pc EXCEPT ![i] = "done"]
              /\ svc' = r.svc
              /\ b_out' = [b_out EXCEPT ![i] = Returned(r.ret)]
              /\ b_sem' = semaphore_release(b_sem)
    /\ UNCHANGED <<batchFrame, sessions, b_results, b_state>>

\* the body of task i's response has been read
BatchBody(i) ==
    /\ b_state = "running"
    /\ b_pc[i] = "read_body"
    /\ \E r \in {AsyncService_on_body(svc, sessions, now, b_remote[i].body)} :
         /\ b_pc' = [b_pc EXCEPT ![i] = "done"]
         /\ svc' = r.svc
         /\ b_out' = [b_out EXCEPT ![i] = Returned(r.ret)]
         /\ b_sem' = semaphore_release(b_sem)
    /\ UNCHANGED <<batchFrame, sessions, b_remote, b_results, b_state>>

\* gather has every result, in the order of the requests; batch_call returns
BatchReturn ==
    /\ b_state = "running"
    /\ \A i \in Members : b_pc[i] = "done"
    /\ b_results' = [i \in Members |-> processed_result(b_out[i])]
    /\ b_state' = "returned"
    /\ UNCHANGED <<batchFrame, svc, sessions, b_sem, b_pc, b_out, b_remote>>

BatchNext ==
    \/ \E i \in Members : BatchAdmit(i)
    \/ \E i \in Members : \E resp \in BatchResponses(i) : BatchResponse(i, resp)
    \/ \E i \in Members : BatchBody(i)
    \/ BatchReturn

SpecBatch == BatchInit /\ [][BatchNext]_vars

\* what request i's own call yields, from the request and the remote's answer to it
ExpectedResult(i) ==
    IF b_reqs[i] # "good" THEN NoneVal
    ELSE IF b_remote[i].kind # "response" THEN NoneVal
    ELSE IF b_remote[i].status # 200 THEN NoneVal
    ELSE IF ~b_remote[i].body.json THEN NoneVal
    ELSE IF ~check_proto(b_remote[i].body.data, output_proto) THEN NoneVal
    ELSE from_dict(output_proto, b_remote[i].body.data)

\* C6: batch_call over n requests returns n results, result i being the outcome of
\* request i: None where that request's call failed or raised, and the validated
\* object of its own response otherwise.
C6_BatchPositions ==
    b_state = "returned" =>
        /\ Len(b_results) = Len(b_reqs)
        /\ \A i \in Members : b_results[i] = ExpectedResult(i)

\* a batch [A, B, C] whose B raised: None at B, and A and C hold their own results
C6_Witness ==
    /\ b_state = "returned"
    /\ b_reqs[2] = "raises" /\ b_results[2] = NoneVal
    /\ b_results[1] = from_dict(output_proto, EchoBody(1).data)
    /\ b_results[3] = from_dict(output_proto, EchoBody(3).data)

\* C7: at most max_concurrent calls of a batch are between admission and
\* completion at any time.
C7_BoundedInFlight ==
    b_state = "running" => Cardinality(InFlight) <= b_max

\* the gate is full and holds a request back
C7_Witness ==
    /\ b_state = "running"
    /\ Cardinality(InFlight) = b_max
    /\ b_max = MaxConcurrent
    /\ \E i \in Members : b_pc[i] = "waiting" /\ b_reqs[i] = "good"

(***************************************************************************)
(* SpecRegistry: ServiceRegistry and AsyncServiceRegistry                  *)
(***************************************************************************)
RegistryNames == {"svc", "other"}
\* two configs per name, differing in the target URL
Configs == {[name |-> n, service_url |-> u] :
                n \in RegistryNames, u \in {"http://v1/api", "http://v2/api"}}

\* EnhancedService(config): a new client object (id tells the objects apart)
EnhancedService_new(config, id) ==
    [id |-> id, config |-> config, breaker |-> EnhancedService_init,
     cache |-> ResponseCache_init(cache_ttl_default)]

\* AsyncService(config)
AsyncService_new(config, id) ==
    [id |-> id, config |-> config, breaker |-> AsyncService_init]

\* a register that keeps the client already registered under the name
ServiceRegistry_register_keep(services, config, id) ==
    IF config.name \in DOMAIN services
    THEN [ret |-> services[config.name], services |-> services]
    ELSE LET service == EnhancedService_new(config, id)
         IN  [ret |-> service, services |-> (config.name :> service) @@ services]

\* a register that hands the new client the breaker and cache of the one it replaces
ServiceRegistry_register_carries_state(services, config, id) ==
    LET fresh == EnhancedService_new(config, id)
        service == IF config.name \in DOMAIN services
                   THEN [fresh EXCEPT !.breaker = services[config.name].breaker,
                                      !.cache = services[config.name].cache]
                   ELSE fresh
    IN  [ret |-> service, services |-> (config.name :> service) @@ services]

\* ServiceRegistry.register: the client returned and _services afterwards
ServiceRegistry_register(services, config, id) ==
    LET service == EnhancedService_new(config, id)
    IN  [ret |-> service, services |-> (config.name :> service) @@ services]

\* ServiceRegistry.get_service / AsyncServiceRegistry.get_service: dict.get
ServiceRegistry_get_service(services, name) ==
    IF name \in DOMAIN services THEN services[name] ELSE NoneVal

AsyncServiceRegistry_get_service(services, name) ==
    IF name \in DOMAIN services THEN services[name] ELSE NoneVal

\* ServiceRegistry.list_services: a copy of the mapping
ServiceRegistry_list_services(services) == services

\* AsyncServiceRegistry.register
AsyncServiceRegistry_register(services, config, id) ==
    LET service == AsyncService_new(config, id)
    IN  [ret |-> service, services |-> (config.name :> service) @@ services]

RegistryInit ==
    /\ now = 0 /\ ticks = 0
    /\ ClientIdle
    /\ KeyIdle
    /\ ExtIdle
    /\ BatchIdle
    /\ PoolIdle
    /\ r_services = EmptyMap
    /\ r_async = EmptyMap
    /\ r_next = 1
    /\ r_latest = [sync |-> EmptyMap, async |-> EmptyMap]
    /\ r_replaced = [sync |-> {}, async |-> {}]

regFrame == <<clockVars, coreVars, keyVars, batchVars, poolVars, extVars>>

\* ServiceRegistry.register(config)
Register(config) ==
    /\ r_next <= MaxRegistrations
    /\ \E r \in {ServiceRegistry_register(r_services, config, r_next)} :
          /\ r_services' = r.services
          /\ last' = [op |-> "register", registry |-> "sync", config |-> config, ret |-> r.ret]
    /\ r_next' = r_next + 1
    /\ r_latest' = [r_latest EXCEPT !.sync = (config.name :> config) @@ @]
    /\ r_replaced' =
          IF config.name \in DOMAIN r_latest.sync /\ r_latest.sync[config.name] # config
          THEN [r_replaced EXCEPT !.sync = @ \cup {config.name}]
          ELSE r_replaced
    /\ UNCHANGED <<regFrame, r_async>>

\* AsyncServiceRegistry.register(config)
AsyncRegister(config) ==
    /\ r_next <= MaxRegistrations
    /\ \E r \in {AsyncServiceRegistry_register(r_async, config, r_next)} :
          /\ r_async' = r.services
          /\ last' = [op |-> "register", registry |-> "async", config |-> config, ret |-> r.ret]
    /\ r_next' = r_next + 1
    /\ r_latest' = [r_latest EXCEPT !.async = (config.name :> config) @@ @]
    /\ r_replaced' =
          IF config.name \in DOMAIN r_latest.async /\ r_latest.async[config.name] # config
          THEN [r_replaced EXCEPT !.async = @ \cup {config.name}]
          ELSE r_replaced
    /\ UNCHANGED <<regFrame, r_services>>

\* ServiceRegistry.get_service(name)
GetService(name) ==
    /\ last' = [op |-> "get_service", registry |-> "sync", name |-> name,
                ret |-> ServiceRegistry_get_service(r_services, name)]
    /\ UNCHANGED <<regFrame, regVars>>

\* AsyncServiceRegistry.get_service(name)
AsyncGetService(name) ==
    /\ last' = [op |-> "get_service", registry |-> "async", name |-> name,
                ret |-> AsyncServiceRegistry_get_service(r_async, name)]
    /\ UNCHANGED <<regFrame, regVars>>

\* ServiceRegistry.list_services()
ListServices ==
    /\ last' = [op |-> "list_services", registry |-> "sync",
                ret |-> ServiceRegistry_list_services(r_services)]
    /\ UNCHANGED <<regFrame, regVars>>

RegistryNext ==
    \/ \E c \in Configs : Register(c)
    \/ \E c \in Configs : AsyncRegister(c)
    \/ \E n \in RegistryNames : GetService(n)
    \/ \E n \in RegistryNames : AsyncGetService(n)
    \/ ListServices

SpecRegistry == RegistryInit /\ [][RegistryNext]_vars

\* C8: registering a config under a name already registered replaces the client:
\* register returns a client built from the config given (it never fails),
\* get(name) then returns the client of the latest registration under the name,
\* and list() holds one entry per registered name, that same client.
C8_ReRegistrationReplaces ==
    /\ last.op = "register" => last.ret.config = last.config
    /\ last.op = "get_service" =>
          IF last.name \in DOMAIN r_latest[last.registry]
          THEN last.ret # NoneVal /\ last.ret.config = r_latest[last.registry][last.name]
          ELSE last.ret = NoneVal
    /\ last.op = "list_services" =>
          /\ DOMAIN last.ret = DOMAIN r_latest.sync
          /\ \A n \in DOMAIN last.ret : last.ret[n].config = r_latest.sync[n]

\* a lookup of a name that was registered twice with different configs
C8_Witness ==
    /\ last.op = "get_service" /\ last.registry = "sync"
    /\ last.name \in r_replaced.sync
    /\ last.ret # NoneVal /\ last.ret.config = r_latest.sync[last.name]

(***************************************************************************)
(* SpecPool: ConnectionManager.get_session called from several threads.    *)
(* A thread can be preempted between any two statements, so each           *)
(* statement that reads or writes _sessions is a step of its own.          *)
(***************************************************************************)
Threads == 1..NThreads
PoolNames == {"svc", "other"}

PoolInit ==
    /\ now = 0 /\ ticks = 0
    /\ ClientIdle
    /\ KeyIdle
    /\ ExtIdle
    /\ BatchIdle
    /\ RegIdle
    /\ p_sessions = EmptyMap
    /\ p_pc = [t \in Threads |-> "idle"]
    /\ p_name = [t \in Threads |-> "svc"]
    /\ p_local = [t \in Threads |-> 0]
    /\ p_ret = [t \in Threads |-> 0]
    /\ p_created = [n \in PoolNames |-> 0]
    /\ p_closed = [n \in PoolNames |-> 0]
    /\ p_handed = [n \in PoolNames |-> {}]

poolFrame == <<clockVars, coreVars, last, keyVars, batchVars, regVars, extVars>>

\* a thread that is in neither get_session nor close_session
PoolAtRest == {"idle", "done", "closed", "raised"}

\* thread t calls get_session(name, config)
PoolCall(t, name) ==
    /\ p_pc[t] \in PoolAtRest
    /\ p_pc' = [p_pc EXCEPT ![t] = "check"]
    /\ p_name' = [p_name EXCEPT ![t] = name]
    /\ p_local' = [p_local EXCEPT ![t] = 0]
    /\ p_ret' = [p_ret EXCEPT ![t] = 0]
    /\ UNCHANGED <<poolFrame, p_sessions, p_created, p_closed, p_handed>>

\* line 52: if service_name not in self._sessions
PoolCheck(t) ==
    /\ p_pc[t] = "check"
    /\ p_pc' = [p_pc EXCEPT ![t] = IF p_name[t] \notin DOMAIN p_sessions
                                    THEN "create" ELSE "return"]
    /\ UNCHANGED <<poolFrame, p_sessions, p_name, p_local, p_ret, p_created, p_closed, p_handed>>

\* lines 53-76: session = requests.Session(), adapters mounted, headers set
PoolCreate(t) ==
    /\ p_pc[t] = "create"
    /\ p_created' = [p_created EXCEPT ![p_name[t]] = @ + 1]
    /\ p_local' = [p_local EXCEPT ![t] = p_created[p_name[t]] + 1]
    /\ p_pc' = [p_pc EXCEPT ![t] = "store"]
    /\ UNCHANGED <<poolFrame, p_sessions, p_name, p_ret, p_closed, p_handed>>

\* line 78: self._sessions[service_name] = session
PoolStore(t) ==
    /\ p_pc[t] = "store"
    /\ p_sessions' = (p_name[t] :> p_local[t]) @@ p_sessions
    /\ p_pc' = [p_pc EXCEPT ![t] = "return"]
    /\ UNCHANGED <<poolFrame, p_name, p_local, p_ret, p_created, p_closed, p_handed>>

\* line 81: return self._sessions[service_name]  (KeyError if the entry is gone)
PoolReturn(t) ==
    /\ p_pc[t] = "return"
    /\ IF p_name[t] \in DOMAIN p_sessions
       THEN /\ p_ret' = [p_ret EXCEPT ![t] = p_sessions[p_name[t]]]
            /\ p_handed' = [p_handed EXCEPT ![p_name[t]] = @ \cup {p_sessions[p_name[t]]}]
            /\ p_pc' = [p_pc EXCEPT ![t] = "done"]
       ELSE /\ p_pc' = [p_pc EXCEPT ![t] = "raised"]
            /\ UNCHANGED <<p_ret, p_handed>>
    /\ UNCHANGED <<poolFrame, p_sessions, p_name, p_local, p_created, p_closed>>

PoolNext ==
    \/ \E t \in Threads, n \in PoolNames : PoolCall(t, n)
    \/ \E t \in Threads : PoolCheck(t)
    \/ \E t \in Threads : PoolCreate(t)
    \/ \E t \in Threads : PoolStore(t)
    \/ \E t \in Threads : PoolReturn(t)

SpecPool == PoolInit /\ [][PoolNext]_vars

\* C10: however concurrent first calls of get_session for one service name
\* interleave, one session is created for the name and every caller gets it.
C10_SessionCreatedOnce ==
    /\ \A n \in PoolNames : p_created[n] <= 1
    /\ \A t1 \in Threads, t2 \in Threads :
          (p_pc[t1] = "done" /\ p_pc[t2] = "done" /\ p_name[t1] = p_name[t2])
              => p_ret[t1] = p_ret[t2]

(***************************************************************************)
(* SpecKey: _generate_cache_key applied to two argument sets               *)
(***************************************************************************)
\* params with at most one of json_data / data (the caller selects one body)
KeyArgs ==
    {[params |-> p, json_data |-> j, data |-> d] :
        p \in DictOrNone, j \in DictOrNone, d \in DictOrNone}

KeyArgsOneBody == {a \in KeyArgs : a.json_data.isNone \/ a.data.isNone}

KeyInit ==
    /\ now = 0 /\ ticks = 0
    /\ key_pc = "start"
    /\ key_out = <<>>
    /\ \E a \in KeyArgsOneBody, b \in KeyArgsOneBody : key_args = <<a, b>>
    /\ ClientIdle
    /\ BatchIdle
    /\ RegIdle
    /\ PoolIdle
    /\ ExtIdle

GenerateKeys ==
    /\ key_pc = "start"
    /\ key_out' = <<generate_cache_key(ServiceUrl, key_args[1].params,
                                       key_args[1].json_data, key_args[1].data),
                    generate_cache_key(ServiceUrl, key_args[2].params,
                                       key_args[2].json_data, key_args[2].data)>>
    /\ key_pc' = "done"
    /\ UNCHANGED <<key_args, clockVars, clientVars, batchVars, regVars, poolVars, extVars>>

KeyNext == GenerateKeys

SpecKey == KeyInit /\ [][KeyNext]_vars

SameCallArgs(a, b) ==
    /\ SameMapping(a.params, b.params)
    /\ SameMapping(a.json_data, b.json_data)
    /\ SameMapping(a.data, b.data)

\* C5: two calls to the same URL whose params / json_data / data hold the same
\* key-value pairs, in whatever insertion order, get the same cache key.
C5_KeyDeterminism ==
    (key_pc = "done" /\ SameCallArgs(key_args[1], key_args[2]))
        => key_out[1] = key_out[2]

(***************************************************************************)
(* SpecAsyncPool: AsyncConnectionManager used by tasks of one event loop.  *)
(* A task runs until it awaits something that is not ready: the lock when  *)
(* another task holds it, or session.close().  The lock is held across an  *)
(* await only inside close_session.                                        *)
(***************************************************************************)
Tasks == 1..NTasks

\* a get_session that builds a session whether or not the name has one
AsyncConnectionManager_get_session_always_new(ss, created, name) ==
    [sessions |-> (name :> created[name] + 1) @@ ss,
     created |-> [created EXCEPT ![name] = @ + 1],
     ret |-> created[name] + 1, made |-> TRUE]

\* lines 48-69 with the lock held: _sessions and the creation count afterwards,
\* the session returned, and whether this call built it
AsyncConnectionManager_get_session(ss, created, name) ==
    IF name \notin DOMAIN ss
    THEN [sessions |-> (name :> created[name] + 1) @@ ss,
          created |-> [created EXCEPT ![name] = @ + 1],
          ret |-> created[name] + 1, made |-> TRUE]
    ELSE [sessions |-> ss, created |-> created, ret |-> ss[name], made |-> FALSE]

\* the event loop's tasks all work with the one service
APoolNames == {ServiceName}

APoolInit ==
    /\ now = 0 /\ ticks = 0
    /\ ClientIdle /\ KeyIdle /\ BatchIdle /\ RegIdle /\ PoolIdle
    /\ RThreadIdle /\ BThreadIdle /\ MonIdle /\ LateIdle
    /\ a_sessions = EmptyMap
    /\ a_lock = 0
    /\ a_pc = [t \in Tasks |-> "idle"]
    /\ a_name = [t \in Tasks |-> "svc"]
    /\ a_ret = [t \in Tasks |-> [op |-> "none"]]
    /\ a_created = [n \in APoolNames |-> 0]
    /\ a_closed = [n \in APoolNames |-> 0]

apoolFrame == <<clockVars, clientVars, keyVars, batchVars, regVars, poolVars,
                rthreadVars, bthreadVars, monVars, lateVars>>

AtRest == {"idle", "done"}

\* task t is inside `async with self._lock` of get_session(name, config) and runs
\* to the return without awaiting
AGetSection(t, name, waited) ==
    \E r \in {AsyncConnectionManager_get_session(a_sessions, a_created, name)} :
        /\ a_sessions' = r.sessions
        /\ a_created' = r.created
        /\ a_ret' = [a_ret EXCEPT ![t] = [op |-> "get", session |-> r.ret, made |-> r.made,
                                          waited |-> waited, epoch |-> a_closed[name]]]
        /\ a_pc' = [a_pc EXCEPT ![t] = "done"]
        /\ UNCHANGED <<a_lock, a_closed>>

\* await manager.get_session(name, config)
AGetSession(t, name) ==
    /\ a_pc[t] \in AtRest
    /\ a_name' = [a_name EXCEPT ![t] = name]
    /\ IF a_lock = 0
       THEN AGetSection(t, name, FALSE)
       ELSE /\ a_pc' = [a_pc EXCEPT ![t] = "wait_get"]
            /\ UNCHANGED <<a_sessions, a_lock, a_ret, a_created, a_closed>>
    /\ UNCHANGED apoolFrame

\* the lock was released and task t, which waited for it in get_session, gets it
AGetResume(t) ==
    /\ a_pc[t] = "wait_get"
    /\ a_lock = 0
    /\ AGetSection(t, a_name[t], TRUE)
    /\ UNCHANGED <<apoolFrame, a_name>>

\* lines 73-75: with the lock held, close_session awaits session.close() if the
\* name has a session
ACloseSection(t, name) ==
    /\ IF name \in DOMAIN a_sessions
       THEN a_lock' = t /\ a_pc' = [a_pc EXCEPT ![t] = "closing"] /\ UNCHANGED a_ret
       ELSE /\ a_pc' = [a_pc EXCEPT ![t] = "done"]
            /\ a_ret' = [a_ret EXCEPT ![t] = [op |-> "close"]]
            /\ UNCHANGED a_lock
    /\ UNCHANGED <<a_sessions, a_created, a_closed>>

\* await manager.close_session(name)
ACloseSession(t, name) ==
    /\ a_pc[t] \in AtRest
    /\ a_closed[ServiceName] + Cardinality({u \in Tasks : a_pc[u] \in {"closing", "wait_close"}})
          < MaxCloses
    /\ a_name' = [a_name EXCEPT ![t] = name]
    /\ IF a_lock = 0
       THEN ACloseSection(t, name)
       ELSE /\ a_pc' = [a_pc EXCEPT ![t] = "wait_close"]
            /\ UNCHANGED <<a_sessions, a_lock, a_ret, a_created, a_closed>>
    /\ UNCHANGED apoolFrame

ACloseResume(t) ==
    /\ a_pc[t] = "wait_close"
    /\ a_lock = 0
    /\ ACloseSection(t, a_name[t])
    /\ UNCHANGED <<apoolFrame, a_name>>

\* lines 76-77: session.close() is over; the entry is deleted and the lock released
ACloseFinish(t) ==
    /\ a_pc[t] = "closing"
    /\ a_sessions' = DropKey(a_sessions, a_name[t])
    /\ a_closed' = [a_closed EXCEPT ![a_name[t]] = @ + 1]
    /\ a_lock' = 0
    /\ a_pc' = [a_pc EXCEPT ![t] = "done"]
    /\ a_ret' = [a_ret EXCEPT ![t] = [op |-> "close"]]
    /\ UNCHANGED <<apoolFrame, a_name, a_created>>

APoolNext ==
    \/ \E t \in Tasks, n \in APoolNames : AGetSession(t, n)
    \/ \E t \in Tasks : AGetResume(t)
    \/ \E t \in Tasks, n \in APoolNames : ACloseSession(t, n)
    \/ \E t \in Tasks : ACloseResume(t)
    \/ \E t \in Tasks : ACloseFinish(t)

SpecAsyncPool == APoolInit /\ [][APoolNext]_vars

AGot(t) == a_pc[t] = "done" /\ a_ret[t].op = "get"

\* C11: in the non-blocking connection manager no second session is created for a
\* name while the name has one (so the sessions created for a name are at most one
\* more than those removed), and tasks that call get_session for the name with no
\* removal in between get the same session: the one the first of them created.
C11_AsyncSessionCreatedOnce ==
    /\ \A n \in APoolNames : a_created[n] <= a_closed[n] + 1
    /\ \A t \in Tasks : AGot(t) => a_ret[t].session = a_ret[t].epoch + 1
    /\ \A t1 \in Tasks, t2 \in Tasks :
          (AGot(t1) /\ AGot(t2) /\ a_name[t1] = a_name[t2]
             /\ a_ret[t1].epoch = a_ret[t2].epoch)
              => a_ret[t1].session = a_ret[t2].session

\* two tasks waited at the lock for the first session of a name (its only removal
\* was under way); the one that got the lock first created the session and the
\* other one received that session
C11_Witness ==
    /\ a_closed[ServiceName] = 1
    /\ \E t1 \in Tasks, t2 \in Tasks :
          /\ t1 # t2 /\ AGot(t1) /\ AGot(t2) /\ a_name[t1] = a_name[t2]
          /\ a_ret[t1].waited /\ a_ret[t2].waited
          /\ a_ret[t1].made /\ ~a_ret[t2].made
          /\ a_ret[t1].session = a_ret[t2].session
          /\ a_created[a_name[t1]] = 2

(***************************************************************************)
(* SpecPoolClose: ConnectionManager.get_session and close_session called   *)
(* from several threads                                                    *)
(***************************************************************************)
\* thread t calls close_session(name)
PoolCloseCall(t, name) ==
    /\ p_pc[t] \in PoolAtRest
    /\ p_closed["svc"] + p_closed["other"]
          + Cardinality({u \in Threads : p_pc[u] \in {"close_check", "close_close", "close_del"}})
          < MaxCloses
    /\ p_pc' = [p_pc EXCEPT ![t] = "close_check"]
    /\ p_name' = [p_name EXCEPT ![t] = name]
    /\ p_local' = [p_local EXCEPT ![t] = 0]
    /\ p_ret' = [p_ret EXCEPT ![t] = 0]
    /\ UNCHANGED <<poolFrame, p_sessions, p_created, p_closed, p_handed>>

\* line 85: if service_name in self._sessions
PoolCloseCheck(t) ==
    /\ p_pc[t] = "close_check"
    /\ p_pc' = [p_pc EXCEPT ![t] = IF p_name[t] \in DOMAIN p_sessions
                                    THEN "close_close" ELSE "closed"]
    /\ UNCHANGED <<poolFrame, p_sessions, p_name, p_local, p_ret, p_created, p_closed, p_handed>>

\* line 86: self._sessions[service_name].close()  (KeyError if the entry is gone)
PoolCloseSession(t) ==
    /\ p_pc[t] = "close_close"
    /\ p_pc' = [p_pc EXCEPT ![t] = IF p_name[t] \in DOMAIN p_sessions
                                    THEN "close_del" ELSE "raised"]
    /\ p_shut' = IF p_name[t] \in DOMAIN p_sessions
                 THEN p_shut \cup {<<p_name[t], p_sessions[p_name[t]]>>} ELSE p_shut
    /\ UNCHANGED <<clockVars, coreVars, last, keyVars, batchVars, regVars, apoolVars,
                   rthreadVars, bthreadVars, monVars, decVars, stepVars, tailVars, objVars>>
    /\ UNCHANGED <<p_sessions, p_name, p_local, p_ret, p_created, p_closed, p_handed>>

\* line 87: del self._sessions[service_name]  (KeyError if the entry is gone)
PoolCloseDel(t) ==
    /\ p_pc[t] = "close_del"
    /\ IF p_name[t] \in DOMAIN p_sessions
       THEN /\ p_sessions' = DropKey(p_sessions, p_name[t])
            /\ p_closed' = [p_closed EXCEPT ![p_name[t]] = @ + 1]
            /\ p_handed' = [p_handed EXCEPT ![p_name[t]] = {}]
            /\ p_pc' = [p_pc EXCEPT ![t] = "closed"]
       ELSE /\ p_pc' = [p_pc EXCEPT ![t] = "raised"]
            /\ UNCHANGED <<p_sessions, p_closed, p_handed>>
    /\ UNCHANGED <<poolFrame, p_name, p_local, p_ret, p_created>>

PoolCloseNext ==
    \/ PoolNext
    \/ \E t \in Threads, n \in PoolNames : PoolCloseCall(t, n)
    \/ \E t \in Threads : PoolCloseCheck(t)
    \/ \E t \in Threads : PoolCloseSession(t)
    \/ \E t \in Threads : PoolCloseDel(t)

SpecPoolClose == PoolInit /\ [][PoolCloseNext]_vars

\* C12: between the creation of a name's session and the name's next close, every
\* get_session for the name returns the same object: the sessions handed out for a
\* name since its last removal are never two different ones.
C12_ConnectionReuse ==
    \A n \in PoolNames : Cardinality(p_handed[n]) <= 1

(***************************************************************************)
(* Spec, continued: how a call ends when something fails                   *)
(***************************************************************************)
\* the failure kinds, told from what the call was given and what the remote end did
CircuitOpen == last.open
InputValidationFailure == ~last.open /\ ~last.input_ok
TransportFailure == last.resp.kind = "exception" /\ last.resp.error \in TransportErrors
StatusFailure == last.resp.kind = "response" /\ last.resp.status # 200
DecodeFailure ==
    last.resp.kind = "response" /\ last.resp.status = 200 /\ ~last.resp.body.json
OutputValidationFailure ==
    /\ last.resp.kind = "response" /\ last.resp.status = 200 /\ last.resp.body.json
    /\ ~check_proto(last.resp.body.data, output_proto)

\* C13: a call of either client in which the breaker was open, the input or the
\* output failed validation, the exchange timed out or lost its connection, the
\* status was not 200 or the body could not be decoded, returns None to the caller
\* and raises nothing.
C13_FailuresReturnNone ==
    (last.op = "call" /\ (CircuitOpen \/ InputValidationFailure \/ TransportFailure
                            \/ StatusFailure \/ DecodeFailure \/ OutputValidationFailure))
        => (last.ret = NoneVal /\ ~last.raised)

\* the exchange of a call of the blocking client timed out and the call returned None
C13_Witness ==
    /\ last.op = "call" /\ variant = "blocking"
    /\ TransportFailure /\ last.resp.error = "Timeout"
    /\ last.stage = "Send" /\ last.ret = NoneVal /\ ~last.raised

\* the counter a failure is added to: the call's own breaker check has reset a
\* counter that stood at the threshold once the open window was over
CounterAfterCheck ==
    IF svc.failures >= circuit_breaker_threshold THEN 0 ELSE svc.failures

\* the step wrote nothing into the cache (it may have dropped an expired entry)
NoCacheWrite ==
    \A k \in DOMAIN cache'.cache :
        k \in DOMAIN cache.cache /\ cache'.timestamps[k] = cache.timestamps[k]

\* C14: a response whose status is not 200, 201 included, ends the call at the
\* status check: one failure is recorded (counter + 1, last-failure time = now),
\* None is returned, the body is neither parsed nor validated, nothing is cached.
C14_OnlyStatus200 ==
    [][(last'.op = "call" /\ last'.resp.kind = "response" /\ last'.resp.status # 200) =>
          /\ last'.stage = "CheckStatus"
          /\ last'.ret = NoneVal
          /\ svc'.failures = CounterAfterCheck + 1
          /\ svc'.last_failure = now
          /\ NoCacheWrite]_vars

\* a 201 response with a body the output schema accepts was counted as a failure
C14_Witness ==
    /\ last.op = "call" /\ last.use_cache
    /\ last.resp.kind = "response" /\ last.resp.status = 201
    /\ last.resp.body.json /\ check_proto(last.resp.body.data, output_proto)
    /\ last.stage = "CheckStatus" /\ last.ret = NoneVal
    /\ svc.failures >= 1 /\ svc.last_failure = now

\* C16: a call whose exchange timed out leaves the failure counter one higher and
\* the last-failure time at the time of the call, caches nothing and returns None.
C16_TimeoutIsFailure ==
    [][(last'.op = "call" /\ last'.resp.kind = "exception" /\ last'.resp.error = "Timeout") =>
          /\ svc'.failures = CounterAfterCheck + 1
          /\ svc'.last_failure = now
          /\ NoCacheWrite
          /\ last'.ret = NoneVal /\ ~last'.raised]_vars

\* a caching call timed out some time after the client was built
C16_Witness ==
    /\ last.op = "call" /\ last.use_cache
    /\ last.resp.kind = "exception" /\ last.resp.error = "Timeout"
    /\ last.ret = NoneVal
    /\ now > 0 /\ svc.last_failure = now /\ svc.failures >= 2

(***************************************************************************)
(* SpecTimeout: calls that pass a timeout of their own, or none            *)
(***************************************************************************)
TimeoutNext ==
    \/ EnhancedCallWith(Timeouts)
    \/ AsyncCallWith(Timeouts)

SpecTimeout == Init /\ [][TimeoutNext]_vars

\* C15: the exchange of a call runs under the timeout the call passed, and under
\* the config's timeout when the call passed none, in both clients.
C15_TimeoutOverride ==
    (last.op = "call" /\ last.sent) =>
        last.bound = IF last.timeout.isNone THEN config_timeout ELSE last.timeout.seconds

(***************************************************************************)
(* SpecRegistryThreads: a registry called from several threads             *)
(* (variant "blocking": ServiceRegistry, "nonblocking":                    *)
(* AsyncServiceRegistry).  ServiceRegistry.register runs under the class   *)
(* lock; get_service, list_services and all of AsyncServiceRegistry take   *)
(* no lock.  dict.get, dict.copy and the item assignment are single        *)
(* operations of the interpreter.                                          *)
(***************************************************************************)
\* a store that replaces the whole mapping by the one new entry
registry_store_alone(services, name, service) == (name :> service)

\* cls._services[config.name] = service
registry_store(services, name, service) == (name :> service) @@ services

RegistryThreadsInit ==
    /\ now = 0 /\ ticks = 0
    /\ variant \in {"blocking", "nonblocking"}
    /\ svc = EnhancedService_init
    /\ cache = ResponseCache_init(cache_ttl_default)
    /\ sessions = EmptyMap
    /\ last = [op |-> "init"]
    /\ streak = [n |-> 0, at |-> 0]
    /\ ins = EmptyMap
    /\ KeyIdle /\ BatchIdle /\ PoolIdle
    /\ APoolIdle /\ BThreadIdle /\ MonIdle /\ LateIdle
    /\ r_services = EmptyMap
    /\ r_async = EmptyMap
    /\ r_next = 1
    /\ r_latest = [sync |-> EmptyMap, async |-> EmptyMap]
    /\ r_replaced = [sync |-> {}, async |-> {}]
    /\ g_lock = 0
    /\ g_pc = [t \in Threads |-> "idle"]
    /\ g_arg = [t \in Threads |-> NoneVal]
    /\ g_local = [t \in Threads |-> NoneVal]

rthreadFrame == <<clockVars, coreVars, keyVars, batchVars, poolVars,
                  apoolVars, bthreadVars, monVars, lateVars, r_replaced>>

\* the registry the threads work on
Registry == IF variant = "blocking" THEN "sync" ELSE "async"

\* the threads inside register
Registering == {u \in Threads : g_pc[u] # "idle"}

\* thread t calls register(config)
RegisterCall(t, config) ==
    /\ g_pc[t] = "idle"
    /\ r_next + Cardinality({u \in Threads : g_pc[u] = "acquire"}) <= MaxRegistrations
    /\ g_pc' = [g_pc EXCEPT ![t] = "acquire"]
    /\ g_arg' = [g_arg EXCEPT ![t] = config]
    /\ last' = [op |-> "call_register"]
    /\ UNCHANGED <<rthreadFrame, r_services, r_async, r_next, r_latest, g_lock, g_local>>

\* enhanced_service.py lines 104-108: the lock is taken and the client built;
\* async_service.py line 234: the client is built, no lock
RegisterConstruct(t) ==
    /\ g_pc[t] = "acquire"
    /\ IF variant = "blocking"
       THEN /\ g_lock = 0
            /\ g_lock' = t
            /\ g_local' = [g_local EXCEPT ![t] = EnhancedService_new(g_arg[t], r_next)]
       ELSE /\ g_local' = [g_local EXCEPT ![t] = AsyncService_new(g_arg[t], r_next)]
            /\ UNCHANGED g_lock
    /\ r_next' = r_next + 1
    /\ g_pc' = [g_pc EXCEPT ![t] = "store"]
    /\ last' = [op |-> "construct"]
    /\ UNCHANGED <<rthreadFrame, r_services, r_async, r_latest, g_arg>>

\* enhanced_service.py line 109 / async_service.py line 235
RegisterStore(t) ==
    /\ g_pc[t] = "store"
    /\ IF variant = "blocking"
       THEN /\ r_services' = registry_store(r_services, g_arg[t].name, g_local[t])
            /\ r_latest' = [r_latest EXCEPT !.sync = (g_arg[t].name :> g_arg[t]) @@ @]
            /\ UNCHANGED r_async
       ELSE /\ r_async' = registry_store(r_async, g_arg[t].name, g_local[t])
            /\ r_latest' = [r_latest EXCEPT !.async = (g_arg[t].name :> g_arg[t]) @@ @]
            /\ UNCHANGED r_services
    /\ g_pc' = [g_pc EXCEPT ![t] = "return"]
    /\ last' = [op |-> "store"]
    /\ UNCHANGED <<rthreadFrame, r_next, g_lock, g_arg, g_local>>

\* enhanced_service.py line 111 (the lock is released) / async_service.py line 237
RegisterReturn(t) ==
    /\ g_pc[t] = "return"
    /\ g_lock' = IF variant = "blocking" THEN 0 ELSE g_lock
    /\ last' = [op |-> "register", registry |-> Registry, config |-> g_arg[t],
                ret |-> g_local[t]]
    /\ g_pc' = [g_pc EXCEPT ![t] = "idle"]
    /\ g_arg' = [g_arg EXCEPT ![t] = NoneVal]
    /\ g_local' = [g_local EXCEPT ![t] = NoneVal]
    /\ UNCHANGED <<rthreadFrame, r_services, r_async, r_next, r_latest>>

\* a thread that is not inside register calls get_service(name)
ThreadGetService(t, name) ==
    /\ g_pc[t] = "idle"
    /\ last' = [op |-> "get_service", registry |-> Registry, name |-> name,
                ret |-> IF variant = "blocking"
                        THEN ServiceRegistry_get_service(r_services, name)
                        ELSE AsyncServiceRegistry_get_service(r_async, name),
                during |-> {g_arg[u].name : u \in Registering}]
    /\ UNCHANGED <<rthreadFrame, regVars, rthreadVars>>

\* a thread that is not inside register calls ServiceRegistry.list_services()
ThreadListServices(t) ==
    /\ g_pc[t] = "idle"
    /\ variant = "blocking"
    /\ last' = [op |-> "list_services", registry |-> Registry,
                ret |-> ServiceRegistry_list_services(r_services),
                during |-> {g_arg[u].name : u \in Registering}]
    /\ UNCHANGED <<rthreadFrame, regVars, rthreadVars>>

RegistryThreadsNext ==
    \/ \E t \in Threads, c \in Configs : RegisterCall(t, c)
    \/ \E t \in Threads : RegisterConstruct(t)
    \/ \E t \in Threads : RegisterStore(t)
    \/ \E t \in Threads : RegisterReturn(t)
    \/ \E t \in Threads, n \in RegistryNames : ThreadGetService(t, n)
    \/ \E t \in Threads : ThreadListServices(t)

SpecRegistryThreads == RegistryThreadsInit /\ [][RegistryThreadsNext]_vars

\* a client as its constructor leaves it, built from a config of the given name
BuiltFor(c, name) ==
    /\ c # NoneVal
    /\ c.config \in Configs /\ c.config.name = name
    /\ c = IF variant = "blocking" THEN EnhancedService_new(c.config, c.id)
           ELSE AsyncService_new(c.config, c.id)

\* C17: however register, get_service and list_services of several threads
\* interleave: get_service(name) returns None or a completely built client that was
\* registered under the name, the one stored last; list_services() returns a
\* mapping that holds such a client for every name stored so far; and when no
\* registration is under way the registry holds, for every name registered, the
\* client of the registration that stored last.
C17_RegistryThreadSafe ==
    /\ last.op = "get_service" =>
          IF last.name \in DOMAIN r_latest[last.registry]
          THEN /\ BuiltFor(last.ret, last.name)
               /\ last.ret.config = r_latest[last.registry][last.name]
          ELSE last.ret = NoneVal
    /\ last.op = "list_services" =>
          /\ DOMAIN last.ret = DOMAIN r_latest.sync
          /\ \A n \in DOMAIN last.ret :
                BuiltFor(last.ret[n], n) /\ last.ret[n].config = r_latest.sync[n]
    /\ Registering = {} =>
          /\ DOMAIN r_services = DOMAIN r_latest.sync
          /\ DOMAIN r_async = DOMAIN r_latest.async
          /\ \A n \in DOMAIN r_services :
                ServiceRegistry_get_service(r_services, n).config = r_latest.sync[n]
          /\ \A n \in DOMAIN r_async :
                AsyncServiceRegistry_get_service(r_async, n).config = r_latest.async[n]

\* a lookup in ServiceRegistry, made while another thread was inside register for
\* the same name, returned the client registered before, with the other name
\* registered as well
C17_Witness ==
    /\ last.op = "get_service" /\ last.registry = "sync"
    /\ last.name \in last.during
    /\ last.ret # NoneVal
    /\ \E t \in Threads : g_pc[t] = "store" /\ g_arg[t].name = last.name
                          /\ g_arg[t] # last.ret.config
    /\ DOMAIN r_services = RegistryNames

(***************************************************************************)
(* SpecBreakerThreads: one EnhancedService called from several threads,    *)
(* every call failing at the status check.  The breaker methods take no    *)
(* lock; a thread can be preempted between reading and writing a field.    *)
(***************************************************************************)
BreakerThreadsInit ==
    /\ now = 0 /\ ticks = 0
    /\ variant = "blocking"
    /\ \E f \in {0, circuit_breaker_threshold - 1} :
          /\ svc = [EnhancedService_init EXCEPT !.failures = f]
          /\ k_base = f
    /\ cache = ResponseCache_init(cache_ttl_default)
    /\ sessions = (ServiceName :> 1)
    /\ last = [op |-> "init"]
    /\ streak = [n |-> 0, at |-> 0]
    /\ ins = EmptyMap
    /\ KeyIdle /\ BatchIdle /\ RegIdle /\ PoolIdle
    /\ APoolIdle /\ RThreadIdle /\ MonIdle /\ LateIdle
    /\ k_pc = [t \in Threads |-> "idle"]
    /\ k_tmp = [t \in Threads |-> 0]

bthreadFrame == <<clockVars, variant, cache, sessions, last, streak, ins,
                  keyVars, batchVars, regVars, poolVars,
                  apoolVars, rthreadVars, monVars, lateVars, k_base>>

\* thread t calls service(json_data=...)
ThreadCall(t) ==
    /\ k_pc[t] = "idle"
    /\ k_pc' = [k_pc EXCEPT ![t] = "check"]
    /\ UNCHANGED <<bthreadFrame, svc, k_tmp>>

\* line 177: if self._circuit_breaker_failures >= self._circuit_breaker_threshold
ThreadCheckCounter(t) ==
    /\ k_pc[t] = "check"
    /\ k_pc' = [k_pc EXCEPT ![t] = IF svc.failures >= circuit_breaker_threshold
                                    THEN "check_time" ELSE "exchange"]
    /\ UNCHANGED <<bthreadFrame, svc, k_tmp>>

\* lines 178-183: inside the open window the call is refused (line 219); after it
\* the counter is reset and the call goes on
ThreadCheckTime(t) ==
    /\ k_pc[t] = "check_time"
    /\ IF now - svc.last_failure < circuit_breaker_timeout
       THEN k_pc' = [k_pc EXCEPT ![t] = "refused"] /\ UNCHANGED svc
       ELSE k_pc' = [k_pc EXCEPT ![t] = "exchange"] /\ svc' = [svc EXCEPT !.failures = 0]
    /\ UNCHANGED <<bthreadFrame, k_tmp>>

\* lines 232-280: the input is valid, the request is sent and answered with a
\* status that is not 200
ThreadExchange(t) ==
    /\ k_pc[t] = "exchange"
    /\ k_pc' = [k_pc EXCEPT ![t] = "load"]
    /\ UNCHANGED <<bthreadFrame, svc, k_tmp>>

\* line 187, self._circuit_breaker_failures += 1: the field is read ...
ThreadLoadCounter(t) ==
    /\ k_pc[t] = "load"
    /\ k_tmp' = [k_tmp EXCEPT ![t] = svc.failures]
    /\ k_pc' = [k_pc EXCEPT ![t] = "store"]
    /\ UNCHANGED <<bthreadFrame, svc>>

\* ... and the value read, plus one, is written back
ThreadStoreCounter(t) ==
    /\ k_pc[t] = "store"
    /\ svc' = [svc EXCEPT !.failures = k_tmp[t] + 1]
    /\ k_pc' = [k_pc EXCEPT ![t] = "stamp"]
    /\ UNCHANGED <<bthreadFrame, k_tmp>>

\* line 188: self._circuit_breaker_last_failure = time.time(); the call returns None
ThreadStamp(t) ==
    /\ k_pc[t] = "stamp"
    /\ svc' = [svc EXCEPT !.last_failure = now]
    /\ k_pc' = [k_pc EXCEPT ![t] = "failed"]
    /\ UNCHANGED <<bthreadFrame, k_tmp>>

BreakerThreadsNext ==
    \/ \E t \in Threads : ThreadCall(t)
    \/ \E t \in Threads : ThreadCheckCounter(t)
    \/ \E t \in Threads : ThreadCheckTime(t)
    \/ \E t \in Threads : ThreadExchange(t)
    \/ \E t \in Threads : ThreadLoadCounter(t)
    \/ \E t \in Threads : ThreadStoreCounter(t)
    \/ \E t \in Threads : ThreadStamp(t)

SpecBreakerThreads == BreakerThreadsInit /\ [][BreakerThreadsNext]_vars

\* C18: when the calls of all threads are over, each one refused by the breaker or
\* failed, the failure counter has grown by the number of calls that failed.
C18_NoLostFailure ==
    (\A t \in Threads : k_pc[t] \in {"failed", "refused"}) =>
        svc.failures = k_base + Cardinality({t \in Threads : k_pc[t] = "failed"})

(***************************************************************************)
(* ServiceMonitor (config_manager.py).  metrics maps a service name to a   *)
(* dict of counters; the dicts are objects of their own (objs), so that a  *)
(* caller can go on updating an entry the map no longer holds.             *)
(***************************************************************************)
MonitorNames == {"svc", "other"}
\* response times, in whole units
ResponseTimes == {1, 2}

\* float('inf') and the finite times
Inf == [inf |-> TRUE]
Finite(n) == [inf |-> FALSE, v |-> n]
PyMin(a, n) == IF a.inf \/ n < a.v THEN Finite(n) ELSE a
PyMax(a, n) == IF n > a THEN n ELSE a

\* lines 122-129: the entry a name starts with
NewMetrics ==
    [total_requests |-> 0, successful_requests |-> 0, failed_requests |-> 0,
     total_response_time |-> 0, max_response_time |-> 0, min_response_time |-> Inf]

\* ServiceMonitor.__init__
ServiceMonitor_init == [names |-> EmptyMap, objs |-> <<>>]

\* self.metrics[service_name] = {...}: a new entry object takes the name
ServiceMonitor_new_entry(m, name) ==
    [names |-> (name :> Len(m.objs) + 1) @@ m.names, objs |-> Append(m.objs, NewMetrics)]

\* the counters the monitor holds for a name (those of a new entry if it has none)
MetricsOf(m, name) ==
    IF name \in DOMAIN m.names THEN m.objs[m.names[name]] ELSE NewMetrics

\* a record_request that leaves the time of a failed request out of the sum
ServiceMonitor_record_request_drops_time(m, service_name, success, response_time) ==
    LET m1 == IF service_name \notin DOMAIN m.names
              THEN ServiceMonitor_new_entry(m, service_name) ELSE m
        i == m1.names[service_name]
    IN  [m1 EXCEPT !.objs[i] =
            [@ EXCEPT !.total_requests = @ + 1,
                      !.total_response_time = IF success THEN @ + response_time ELSE @,
                      !.max_response_time = PyMax(@, response_time),
                      !.min_response_time = PyMin(@, response_time),
                      !.successful_requests = IF success THEN @ + 1 ELSE @,
                      !.failed_requests = IF success THEN @ ELSE @ + 1]]

\* record_request run by one caller alone, lines 119-140
ServiceMonitor_record_request(m, service_name, success, response_time) ==
    LET m1 == IF service_name \notin DOMAIN m.names
              THEN ServiceMonitor_new_entry(m, service_name) ELSE m
        i == m1.names[service_name]
    IN  [m1 EXCEPT !.objs[i] =
            [@ EXCEPT !.total_requests = @ + 1,
                      !.total_response_time = @ + response_time,
                      !.max_response_time = PyMax(@, response_time),
                      !.min_response_time = PyMin(@, response_time),
                      !.successful_requests = IF success THEN @ + 1 ELSE @,
                      !.failed_requests = IF success THEN @ ELSE @ + 1]]

(***************************************************************************)
(* SpecFeed: one client and the global monitor in one program; the         *)
(* application may record requests in the monitor itself                   *)
(***************************************************************************)
FeedInit ==
    /\ now = 0 /\ ticks = 0
    /\ variant \in {"blocking", "nonblocking"}
    /\ svc = IF variant = "blocking" THEN EnhancedService_init ELSE AsyncService_init
    /\ cache = ResponseCache_init(cache_ttl_default)
    /\ sessions = EmptyMap
    /\ last = [op |-> "init"]
    /\ streak = [n |-> 0, at |-> 0]
    /\ ins = EmptyMap
    /\ KeyIdle /\ BatchIdle /\ RegIdle /\ PoolIdle
    /\ APoolIdle /\ RThreadIdle /\ BThreadIdle /\ LateIdle
    /\ m_metrics = ServiceMonitor_init
    /\ m_pc = <<>> /\ m_arg = <<>> /\ m_tmp = <<>>

\* global_monitor.record_request(service_name, success, response_time), called by
\* the application
MonitorRecord(service_name, success, response_time) ==
    /\ MetricsOf(m_metrics, "svc").total_requests
          + MetricsOf(m_metrics, "other").total_requests < MaxRecords
    /\ m_metrics' = ServiceMonitor_record_request(m_metrics, service_name, success, response_time)
    /\ last' = [op |-> "record_request"]
    /\ UNCHANGED <<clockVars, coreVars, keyVars, batchVars, regVars, poolVars,
                   apoolVars, rthreadVars, bthreadVars, lateVars, m_pc, m_arg, m_tmp>>

FeedNext ==
    \/ EnhancedCall
    \/ AsyncCall
    \/ \E n \in MonitorNames, ok \in BOOLEAN, rt \in ResponseTimes : MonitorRecord(n, ok, rt)

SpecFeed == FeedInit /\ [][FeedNext]_vars

\* C19: a call of either client that got as far as recording its outcome
\* (_record_success or _record_failure) leaves the monitor's total for the service
\* one higher, and its successful or failed count one higher, as the call ended.
C19_CallsFeedMonitor ==
    [][(last'.op = "call" /\ last'.stage \in FailStages \cup {"Return"}) =>
          LET before == MetricsOf(m_metrics, ServiceName)
              after == MetricsOf(m_metrics', ServiceName)
          IN  /\ after.total_requests = before.total_requests + 1
              /\ IF last'.stage = "Return"
                 THEN after.successful_requests = before.successful_requests + 1
                 ELSE after.failed_requests = before.failed_requests + 1]_vars

(***************************************************************************)
(* SpecMonitor: ServiceMonitor.record_request called once by each of       *)
(* several threads.  The method takes no lock; a thread can be preempted   *)
(* between any two reads or writes of the shared dicts.                    *)
(***************************************************************************)
MonitorInit ==
    /\ now = 0 /\ ticks = 0
    /\ ClientIdle /\ KeyIdle /\ BatchIdle /\ RegIdle /\ PoolIdle
    /\ APoolIdle /\ RThreadIdle /\ BThreadIdle /\ LateIdle
    /\ m_metrics = ServiceMonitor_init
    /\ m_pc = [t \in Threads |-> "idle"]
    /\ m_arg = [t \in Threads |-> NoneVal]
    /\ m_tmp = [t \in Threads |-> [ref |-> 0, val |-> 0]]

monFrame == <<clockVars, clientVars, keyVars, batchVars, regVars, poolVars,
              apoolVars, rthreadVars, bthreadVars, lateVars>>

\* thread t calls record_request(service_name, success, response_time)
MonitorCall(t, service_name, success, response_time) ==
    /\ m_pc[t] = "idle"
    /\ m_arg' = [m_arg EXCEPT ![t] = [service_name |-> service_name, success |-> success,
                                      response_time |-> response_time]]
    /\ m_pc' = [m_pc EXCEPT ![t] = "check"]
    /\ UNCHANGED <<monFrame, m_metrics, m_tmp>>

\* line 121: if service_name not in self.metrics
MonitorCheck(t) ==
    /\ m_pc[t] = "check"
    /\ m_pc' = [m_pc EXCEPT ![t] = IF m_arg[t].service_name \notin DOMAIN m_metrics.names
                                    THEN "create" ELSE "grab"]
    /\ UNCHANGED <<monFrame, m_metrics, m_arg, m_tmp>>

\* lines 122-129: self.metrics[service_name] = {...}
MonitorCreate(t) ==
    /\ m_pc[t] = "create"
    /\ m_metrics' = ServiceMonitor_new_entry(m_metrics, m_arg[t].service_name)
    /\ m_pc' = [m_pc EXCEPT ![t] = "grab"]
    /\ UNCHANGED <<monFrame, m_arg, m_tmp>>

\* line 131: metrics = self.metrics[service_name]
MonitorGrab(t) ==
    /\ m_pc[t] = "grab"
    /\ m_tmp' = [m_tmp EXCEPT ![t].ref = m_metrics.names[m_arg[t].service_name]]
    /\ m_pc' = [m_pc EXCEPT ![t] = "load_total"]
    /\ UNCHANGED <<monFrame, m_metrics, m_arg>>

\* line 132, metrics['total_requests'] += 1: the item is read ...
MonitorLoadTotal(t) ==
    /\ m_pc[t] = "load_total"
    /\ m_tmp' = [m_tmp EXCEPT ![t].val = m_metrics.objs[m_tmp[t].ref].total_requests]
    /\ m_pc' = [m_pc EXCEPT ![t] = "store_total"]
    /\ UNCHANGED <<monFrame, m_metrics, m_arg>>

\* ... and the value read, plus one, is written back
MonitorStoreTotal(t) ==
    /\ m_pc[t] = "store_total"
    /\ m_metrics' = [m_metrics EXCEPT !.objs[m_tmp[t].ref].total_requests = m_tmp[t].val + 1]
    /\ m_pc' = [m_pc EXCEPT ![t] = "times"]
    /\ UNCHANGED <<monFrame, m_arg, m_tmp>>

\* lines 133-135: the response-time items
MonitorTimes(t) ==
    /\ m_pc[t] = "times"
    /\ m_metrics' = [m_metrics EXCEPT !.objs[m_tmp[t].ref] =
                        [@ EXCEPT !.total_response_time = @ + m_arg[t].response_time,
                                  !.max_response_time = PyMax(@, m_arg[t].response_time),
                                  !.min_response_time = PyMin(@, m_arg[t].response_time)]]
    /\ m_pc' = [m_pc EXCEPT ![t] = "load_outcome"]
    /\ UNCHANGED <<monFrame, m_arg, m_tmp>>

\* lines 137-140, metrics['successful_requests'] += 1 or
\* metrics['failed_requests'] += 1: the item is read ...
MonitorLoadOutcome(t) ==
    /\ m_pc[t] = "load_outcome"
    /\ m_tmp' = [m_tmp EXCEPT ![t].val =
                    IF m_arg[t].success
                    THEN m_metrics.objs[m_tmp[t].ref].successful_requests
                    ELSE m_metrics.objs[m_tmp[t].ref].failed_requests]
    /\ m_pc' = [m_pc EXCEPT ![t] = "store_outcome"]
    /\ UNCHANGED <<monFrame, m_metrics, m_arg>>

\* ... and written back; record_request returns
MonitorStoreOutcome(t) ==
    /\ m_pc[t] = "store_outcome"
    /\ m_metrics' =
          IF m_arg[t].success
          THEN [m_metrics EXCEPT !.objs[m_tmp[t].ref].successful_requests = m_tmp[t].val + 1]
          ELSE [m_metrics EXCEPT !.objs[m_tmp[t].ref].failed_requests = m_tmp[t].val + 1]
    /\ m_pc' = [m_pc EXCEPT ![t] = "done"]
    /\ UNCHANGED <<monFrame, m_arg, m_tmp>>

MonitorNext ==
    \/ \E t \in Threads, n \in MonitorNames, ok \in BOOLEAN, rt \in ResponseTimes :
          MonitorCall(t, n, ok, rt)
    \/ \E t \in Threads : MonitorCheck(t)
    \/ \E t \in Threads : MonitorCreate(t)
    \/ \E t \in Threads : MonitorGrab(t)
    \/ \E t \in Threads : MonitorLoadTotal(t)
    \/ \E t \in Threads : MonitorStoreTotal(t)
    \/ \E t \in Threads : MonitorTimes(t)
    \/ \E t \in Threads : MonitorLoadOutcome(t)
    \/ \E t \in Threads : MonitorStoreOutcome(t)

SpecMonitor == MonitorInit /\ [][MonitorNext]_vars

\* C20: when every thread has made its record_request call, the monitor's total
\* for each service is the number of calls made for it, and successful + failed
\* equals that total.
C20_NoLostRecord ==
    (\A t \in Threads : m_pc[t] = "done") =>
        \A n \in MonitorNames :
            LET made == Cardinality({t \in Threads : m_arg[t].service_name = n})
                counters == MetricsOf(m_metrics, n)
            IN  /\ counters.total_requests = made
                /\ counters.successful_requests + counters.failed_requests
                      = counters.total_requests

(***************************************************************************)
(* Spec, continued: the cache-hit path and the order of the steps          *)
(***************************************************************************)
\* the call just made was a blocking call with caching on whose key had an
\* unexpired entry, made while the breaker was not Open
CacheHitCall ==
    /\ last'.op = "call" /\ variant = "blocking"
    /\ last'.use_cache /\ last'.cached # NoneVal
    /\ ~BreakerIsOpen

\* C21 as stated: such a call returns the cached value at the cache step, with no
\* exchange and no cache write, and leaves the failure counter and the
\* last-failure timestamp as they were.
C21_CacheHitUntouched ==
    [][CacheHitCall =>
          /\ last'.stage = "CheckCache" /\ last'.ret = last'.cached
          /\ ~last'.sent
          /\ cache' = cache
          /\ svc' = svc]_vars

\* C21 amended: such a call returns the cached value at the cache step, with no
\* exchange and no cache write; the last-failure timestamp is unchanged, and so is
\* the failure counter unless it had reached the threshold and the open-duration
\* was over, in which case the call's breaker check has reset it to 0.
C21_CacheHitFrame ==
    [][CacheHitCall =>
          /\ last'.stage = "CheckCache" /\ last'.ret = last'.cached
          /\ ~last'.sent
          /\ cache' = cache
          /\ svc'.last_failure = svc.last_failure
          /\ svc'.failures = IF svc.failures >= circuit_breaker_threshold
                             THEN 0 ELSE svc.failures]_vars

\* a cache hit was served while failures stood on the counter
C21_Witness ==
    /\ last.op = "call" /\ last.stage = "CheckCache"
    /\ last.cached # NoneVal /\ last.ret = last.cached
    /\ svc.failures \in 1..(circuit_breaker_threshold - 1)

(***************************************************************************)
(* SpecHealth: EnhancedService.health_check beside calls of the client.    *)
(* The probe goes through the session get_session built, whose adapter     *)
(* carries Retry(total=config.max_retries, status_forcelist=[...]).        *)
(***************************************************************************)
\* line 58: the statuses the session's adapter sends again on
status_forcelist == {429, 500, 502, 503, 504}

\* what the remote end does with one attempt of the probe
ProbeAnswers ==
    {[kind |-> "response", status |-> st] : st \in {200, 404, 500}}
    \cup {[kind |-> "exception", error |-> e] : e \in {"ConnectionError", "ValueError"}}

\* the remote end's answers to the first, second, ... attempt
ProbeScripts == [1..(config_max_retries + 1) -> ProbeAnswers]

\* lines 56-72: a GET through the mounted HTTPAdapter.  Attempt i gets answers[i];
\* a connection error or timeout, or a status of the forcelist, is sent again while
\* retries are left.  Out of retries, a status is handed back as it is
\* (raise_on_status=False) and an error is raised as a ConnectionError.
RECURSIVE HTTPAdapter_send(_, _, _)
HTTPAdapter_send(answers, i, left) ==
    LET a == answers[i]
        again == IF a.kind = "exception" THEN a.error \in TransportErrors
                 ELSE a.status \in status_forcelist
    IN  IF again /\ left > 0 THEN HTTPAdapter_send(answers, i + 1, left - 1)
        ELSE IF again /\ a.kind = "exception"
        THEN [result |-> [kind |-> "exception", error |-> "ConnectionError"], attempts |-> i]
        ELSE [result |-> a, attempts |-> i]

\* lines 346-356: health_check().  The bare except turns every exception into False.
EnhancedService_health_check(ss, answers) ==
    LET ss2 == get_session(ss, ServiceName)
        r == HTTPAdapter_send(answers, 1, config_max_retries)
    IN  [ret |-> r.result.kind = "response" /\ r.result.status = 200,
         raised |-> FALSE,
         attempts |-> r.attempts,
         sessions |-> ss2]

HealthInit == Init /\ variant = "blocking"

\* service.health_check()
HealthCheck ==
    /\ variant = "blocking"
    /\ \E p \in {<<EnhancedService_health_check(sessions, answers), answers[1]>> :
                   answers \in ProbeScripts} :
         /\ sessions' = p[1].sessions
         /\ last' = [op |-> "health_check", ret |-> p[1].ret, raised |-> p[1].raised,
                     attempts |-> p[1].attempts, first |-> p[2]]
    /\ UNCHANGED <<clockVars, variant, svc, cache, streak, ins, keyVars, batchVars, regVars,
                   poolVars, extVars>>

HealthNext ==
    \/ Tick(1)
    \/ RecordFailure
    \/ EnhancedCall
    \/ HealthCheck

SpecHealth == HealthInit /\ [][HealthNext]_vars

\* C22: the health probe makes one request and reports healthy exactly when that
\* request returned status 200; it never raises, and it leaves the breaker counter,
\* the last-failure timestamp and the cache as they were.
C22_HealthProbe ==
    [][last'.op = "health_check" =>
          /\ last'.attempts = 1
          /\ last'.ret = (last'.first.kind = "response" /\ last'.first.status = 200)
          /\ ~last'.raised
          /\ svc' = svc
          /\ cache' = cache]_vars

(***************************************************************************)
(* SpecDecorator: the decorators service_call and async_service_call.      *)
(* Decorating keeps only the service name; the wrapper looks the client up *)
(* when it is called.                                                      *)
(***************************************************************************)
\* the name the decorated functions are written for
WrappedName == "svc"

\* the call arguments handed to a wrapped call: a valid JSON body, or nothing
WrappedArgs == {a \in CallArgs : a.params = NoneVal /\ a.data = NoneVal}

\* what the decorated function returns: a dict of call arguments, or something else
FuncResults == {[isDict |-> TRUE, kwargs |-> a] : a \in WrappedArgs} \cup {[isDict |-> FALSE]}

\* the configs the clients are registered with
WrappedConfigs == {c \in Configs : c.service_url = "http://v1/api"}

\* what the remote end answers to a wrapped call that reaches it
WrappedResponses ==
    {[kind |-> "response", status |-> 200, body |-> JsonBody(Dict(<< <<"a", "1">> >>))],
     [kind |-> "exception", error |-> "ConnectionError"]}

WrapperResult(raised, sent, ret, client, services, ss) ==
    [raised |-> raised, sent |-> sent, ret |-> ret, client |-> client,
     services |-> services, sessions |-> ss]

\* the session map after a call of the client named name that ended in stage
SessionsAfter(ss, name, stage) ==
    IF stage \in {"CheckBreaker", "CheckCache", "ValidateInput"} THEN ss
    ELSE get_session(ss, name)

\* a wrapper that answers None for a name it does not find
service_call_wrapper_none(services, ss, t, service_name, use_cache, func_result, resp) ==
    LET service == ServiceRegistry_get_service(services, service_name)
    IN  IF service = NoneVal
        THEN WrapperResult(FALSE, FALSE, NoneVal, 0, services, ss)
        ELSE IF ~func_result.isDict
        THEN WrapperResult(FALSE, FALSE, func_result, service.id, services, ss)
        ELSE LET o == EnhancedService_call(service.breaker, service.cache, ss, t,
                                           func_result.kwargs, use_cache, resp)
             IN  WrapperResult(o.stage = "Raise", o.sent, o.ret, service.id,
                    [services EXCEPT ![service_name].breaker = o.svc,
                                     ![service_name].cache = o.cache],
                    SessionsAfter(ss, service_name, o.stage))

\* enhanced_service.py lines 393-410: wrapper(*args, **kwargs) of
\* service_call(service_name, use_cache, cache_ttl), func returning func_result
service_call_wrapper(services, ss, t, service_name, use_cache, func_result, resp) ==
    LET service == ServiceRegistry_get_service(services, service_name)
    IN  IF service = NoneVal
        THEN \* raise ValueError(f"Service {service_name} not found")
             WrapperResult(TRUE, FALSE, NoneVal, 0, services, ss)
        ELSE IF ~func_result.isDict
        THEN WrapperResult(FALSE, FALSE, func_result, service.id, services, ss)
        ELSE LET o == EnhancedService_call(service.breaker, service.cache, ss, t,
                                           func_result.kwargs, use_cache, resp)
             IN  WrapperResult(o.stage = "Raise", o.sent, o.ret, service.id,
                    [services EXCEPT ![service_name].breaker = o.svc,
                                     ![service_name].cache = o.cache],
                    SessionsAfter(ss, service_name, o.stage))

\* async_service.py lines 281-293: wrapper(*args, **kwargs) of
\* async_service_call(service_name); the call arguments come from kwargs
async_service_call_wrapper(services, ss, t, service_name, kwargs, resp) ==
    LET service == AsyncServiceRegistry_get_service(services, service_name)
    IN  IF service = NoneVal
        THEN \* raise ValueError(f"Async service {service_name} not found")
             WrapperResult(TRUE, FALSE, NoneVal, 0, services, ss)
        ELSE LET o == AsyncService_call(service.breaker, ss, t, kwargs, resp)
             IN  WrapperResult(o.stage = "Raise", o.sent, o.ret, service.id,
                    [services EXCEPT ![service_name].breaker = o.svc],
                    IF o.sent THEN async_get_session(ss, service_name) ELSE ss)

\* variant tells which pair is in use: "blocking" for ServiceRegistry with
\* service_call, "nonblocking" for AsyncServiceRegistry with async_service_call
DecoratorInit ==
    /\ now = 0 /\ ticks = 0
    /\ variant \in {"blocking", "nonblocking"}
    /\ svc = EnhancedService_init
    /\ cache = ResponseCache_init(cache_ttl_default)
    /\ sessions = EmptyMap
    /\ last = [op |-> "init"]
    /\ streak = [n |-> 0, at |-> 0]
    /\ ins = EmptyMap
    /\ KeyIdle /\ BatchIdle /\ PoolIdle
    /\ RThreadIdle /\ BThreadIdle /\ MonIdle
    /\ r_services = EmptyMap
    /\ r_async = EmptyMap
    /\ r_next = 1
    /\ r_latest = [sync |-> EmptyMap, async |-> EmptyMap]
    /\ r_replaced = [sync |-> {}, async |-> {}]
    /\ a_sessions = EmptyMap
    /\ a_lock = 0 /\ a_pc = <<>> /\ a_name = <<>>
    /\ a_ret = <<>> /\ a_created = <<>> /\ a_closed = <<>>
    /\ d_wrapped = EmptyMap
    /\ StepIdle /\ TailIdle

decFrame == <<clockVars, variant, svc, cache, streak, ins, keyVars, batchVars, poolVars,
              a_lock, a_pc, a_name, a_ret, a_created, a_closed,
              rthreadVars, bthreadVars, monVars, stepVars, tailVars, shutVars, objVars, r_next, r_latest,
              r_replaced>>

\* @service_call(WrappedName) / @async_service_call(WrappedName) is applied to a
\* function; at records how many clients had been registered by then
Decorate(registry) ==
    /\ registry = (IF variant = "blocking" THEN "sync" ELSE "async")
    /\ registry \notin DOMAIN d_wrapped
    /\ d_wrapped' = (registry :> [at |-> r_next, raised |-> FALSE, calls |-> 0]) @@ d_wrapped
    /\ last' = [op |-> "decorate", registry |-> registry]
    /\ UNCHANGED <<decFrame, sessions, a_sessions, r_services, r_async>>

WrappedRecord(registry, w, registered) ==
    [op |-> "wrapped_call", registry |-> registry, registered |-> registered,
     raised |-> w.raised, sent |-> w.sent, client |-> w.client]

\* a function decorated with service_call is called
WrappedCall(use_cache, func_result, resp) ==
    /\ "sync" \in DOMAIN d_wrapped
    /\ d_wrapped["sync"].calls < MaxWrappedCalls
    /\ \E w \in {service_call_wrapper(r_services, sessions, now, WrappedName,
                                      use_cache, func_result, resp)} :
          /\ r_services' = w.services
          /\ sessions' = w.sessions
          /\ last' = WrappedRecord("sync", w, WrappedName \in DOMAIN r_services)
          /\ d_wrapped' = [d_wrapped EXCEPT !["sync"].raised = @ \/ w.raised,
                                            !["sync"].calls = @ + 1]
    /\ UNCHANGED <<decFrame, a_sessions, r_async>>

\* a function decorated with async_service_call is awaited
AsyncWrappedCall(kwargs, resp) ==
    /\ "async" \in DOMAIN d_wrapped
    /\ d_wrapped["async"].calls < MaxWrappedCalls
    /\ \E w \in {async_service_call_wrapper(r_async, a_sessions, now, WrappedName,
                                            kwargs, resp)} :
          /\ r_async' = w.services
          /\ a_sessions' = w.sessions
          /\ last' = WrappedRecord("async", w, WrappedName \in DOMAIN r_async)
          /\ d_wrapped' = [d_wrapped EXCEPT !["async"].raised = @ \/ w.raised,
                                            !["async"].calls = @ + 1]
    /\ UNCHANGED <<decFrame, sessions, r_services>>

DecoratorNext ==
    \/ \E c \in WrappedConfigs : variant = "blocking" /\ Register(c)
    \/ \E c \in WrappedConfigs : variant = "nonblocking" /\ AsyncRegister(c)
    \/ \E registry \in {"sync", "async"} : Decorate(registry)
    \/ \E use_cache \in BOOLEAN, f \in FuncResults, resp \in WrappedResponses :
          WrappedCall(use_cache, f, resp)
    \/ \E kwargs \in WrappedArgs, resp \in WrappedResponses : AsyncWrappedCall(kwargs, resp)

SpecDecorator == DecoratorInit /\ [][DecoratorNext]_vars

\* the registry a wrapper of the given kind looks in
RegistryOf(registry) == IF registry = "sync" THEN r_services ELSE r_async

\* C23: a call of a decorated function whose service name is not registered at
\* that moment raises and starts no HTTP exchange; when the name is registered at
\* that moment, whenever that happened, the call goes to the client registered
\* under it.
C23_DecoratorLookup ==
    last.op = "wrapped_call" =>
        IF ~last.registered
        THEN last.raised /\ ~last.sent /\ last.client = 0
        ELSE last.client = RegistryOf(last.registry)[WrappedName].id

\* a wrapper that raised for the missing name found the client registered later
C23_Witness ==
    /\ last.op = "wrapped_call" /\ last.registered /\ ~last.raised /\ last.sent
    /\ d_wrapped[last.registry].raised
    /\ last.client >= d_wrapped[last.registry].at

(***************************************************************************)
(* Spec, continued: what a call records, and the call after the open       *)
(* window                                                                  *)
(***************************************************************************)
\* the response passed the status check, decoded and passed output validation
ResponseAccepted ==
    /\ last.sent /\ last.resp.kind = "response" /\ last.resp.status = 200
    /\ last.resp.body.json /\ check_proto(last.resp.body.data, output_proto)

\* C25: a call whose response passes status check, decoding and output validation
\* leaves the failure counter at 0; a call that fails at one of these or with a
\* transport exception adds exactly one to the counter its breaker check left and
\* sets the last-failure time to the current time; no call raises the counter by
\* more than one.
C25_OutcomeRecording ==
    [][last'.op = "call" =>
          /\ ResponseAccepted' => svc'.failures = 0
          /\ (TransportFailure' \/ StatusFailure' \/ DecodeFailure' \/ OutputValidationFailure') =>
                /\ svc'.failures = CounterAfterCheck + 1
                /\ svc'.last_failure = now
          /\ svc'.failures <= svc.failures + 1]_vars

\* a non-blocking call whose body failed output validation added a failure to a
\* counter that already held some
C25_Witness ==
    /\ last.op = "call" /\ variant = "nonblocking"
    /\ OutputValidationFailure /\ last.stage = "ValidateOutput"
    /\ svc.failures >= 3 /\ svc.last_failure = now /\ now > 0

\* C26: the first call after the open window of a tripped breaker goes past the
\* breaker check; if it succeeds the counter is reset, and if it fails the breaker
\* is Open again.
C26_ReopenOnFailure ==
    [][(/\ last'.op = "call"
        /\ svc.failures >= circuit_breaker_threshold
        /\ now - svc.last_failure >= circuit_breaker_timeout) =>
          /\ ~last'.open /\ last'.stage # "CheckBreaker"
          /\ last'.stage = "Return" => svc'.failures = 0
          /\ last'.stage \in FailStages => BreakerIsOpen']_vars

(***************************************************************************)
(* SpecBatch, continued: the breaker and the suspension points while       *)
(* several calls of one client are in flight                               *)
(***************************************************************************)
\* C27: once the breaker is Open it stays Open until the open-duration has passed
\* since the last failure, whatever the calls in flight do when they complete.
C27_OpenUntilElapsed ==
    [][BreakerIsOpen =>
          \/ BreakerIsOpen'
          \/ now' - svc.last_failure >= circuit_breaker_timeout]_vars

\* C30: a call is suspended only while its exchange is awaited: while one call is
\* between the end of its exchange and the recording of its outcome, no other task
\* takes a step.
C30_SendOnlySuspension ==
    [][\A i \in Members, j \in Members :
          (i # j /\ b_pc[i] = "read_body") => b_pc'[j] = b_pc[j]]_vars

(***************************************************************************)
(* SpecEquiv: the same call made on a blocking client (caching off) and on *)
(* a non-blocking client that start from the same breaker state and get    *)
(* the same answer from the remote end                                     *)
(***************************************************************************)
\* what the remote end can answer: a status with a body, or a transport error
RemoteResponses == {r \in Responses : r.kind = "exception" => r.error \in TransportErrors}

\* the two clients' breaker fields are kept in svc: they start equal and every
\* step gives both the same operations
EquivInit ==
    /\ now = 0 /\ ticks = 0
    /\ ClientIdle /\ KeyIdle /\ BatchIdle /\ RegIdle /\ PoolIdle /\ ExtIdle

\* what one client's call gave
CallResult(o) == [ret |-> o.ret, failures |-> o.svc.failures, stage |-> o.stage]

\* service(**args) on the blocking client and await service(**args) on the
\* non-blocking one, both at time now, both answered with resp
PairCall ==
    /\ \E args \in CallArgs, resp \in RemoteResponses :
         \E p \in {<<EnhancedService_call(svc, ResponseCache_init(cache_ttl_default),
                                          sessions, now, args, FALSE, resp),
                     AsyncService_call(svc, sessions, now, args, resp)>>} :
             /\ svc' = p[1].svc
             /\ sessions' = p[1].sessions
             /\ last' = [op |-> "pair", prior |-> svc.failures,
                         resp |-> IF p[1].sent THEN resp ELSE NoResponse,
                         sync |-> CallResult(p[1]), async |-> CallResult(p[2])]
             /\ streak' = StreakAfterStage(StreakAfterQuery(streak, now), p[1].stage, now)
    /\ UNCHANGED <<clockVars, variant, cache, ins, keyVars, batchVars, regVars,
                   poolVars, extVars>>

EquivNext ==
    \/ \E d \in BreakerSteps : Tick(d)
    \/ RecordFailure
    \/ PairCall

SpecEquiv == EquivInit /\ [][EquivNext]_vars

StepOrder == <<"CheckBreaker", "CheckCache", "ValidateInput", "Send", "CheckStatus",
               "ParseBody", "ValidateOutput", "RecordOutcome", "CacheStore", "Return">>

Rank(stage) == CHOOSE i \in 1..Len(StepOrder) : StepOrder[i] = stage

\* a call that sends again after a failed output validation
EnhancedService_next_resend(stage, ok, use_cache) ==
    IF stage = "CheckBreaker"
    THEN IF ~ok THEN "Return" ELSE IF use_cache THEN "CheckCache" ELSE "ValidateInput"
    ELSE IF stage = "CheckCache" THEN IF ok THEN "Return" ELSE "ValidateInput"
    ELSE IF stage = "ValidateInput" THEN IF ok THEN "Send" ELSE "Return"
    ELSE IF stage = "Send" THEN IF ok THEN "CheckStatus" ELSE "RecordOutcome"
    ELSE IF stage = "CheckStatus" THEN IF ok THEN "ParseBody" ELSE "RecordOutcome"
    ELSE IF stage = "ParseBody" THEN IF ok THEN "ValidateOutput" ELSE "RecordOutcome"
    ELSE IF stage = "ValidateOutput" THEN IF ok THEN "RecordOutcome" ELSE "Send"
    ELSE IF stage = "RecordOutcome" THEN IF ok /\ use_cache THEN "CacheStore" ELSE "Return"
    ELSE "Return"

\* lines 216-344: the step control passes to after the given step, ok telling how
\* the step went (CheckBreaker: not open; CheckCache: hit; RecordOutcome: success)
EnhancedService_next(stage, ok, use_cache) ==
    IF stage = "CheckBreaker"
    THEN IF ~ok THEN "Return" ELSE IF use_cache THEN "CheckCache" ELSE "ValidateInput"
    ELSE IF stage = "CheckCache" THEN IF ok THEN "Return" ELSE "ValidateInput"
    ELSE IF stage = "ValidateInput" THEN IF ok THEN "Send" ELSE "Return"
    ELSE IF stage = "Send" THEN IF ok THEN "CheckStatus" ELSE "RecordOutcome"
    ELSE IF stage = "CheckStatus" THEN IF ok THEN "ParseBody" ELSE "RecordOutcome"
    ELSE IF stage = "ParseBody" THEN IF ok THEN "ValidateOutput" ELSE "RecordOutcome"
    ELSE IF stage = "ValidateOutput" THEN "RecordOutcome"
    ELSE IF stage = "RecordOutcome" THEN IF ok /\ use_cache THEN "CacheStore" ELSE "Return"
    ELSE "Return"

IdleCall ==
    [pc |-> "idle", args |-> NoneVal, use_cache |-> FALSE, resp |-> NoResponse,
     outcome |-> "none", ret |-> NoneVal, seen_open |-> FALSE, seen_cached |-> NoneVal,
     trace |-> <<>>]

Callers == DOMAIN c_call

StepsInitFor(callers) ==
    /\ now = 0 /\ ticks = 0
    /\ variant = "blocking"
    /\ svc = EnhancedService_init
    /\ cache = ResponseCache_init(cache_ttl_default)
    /\ sessions = EmptyMap
    /\ last = [op |-> "init"]
    /\ streak = [n |-> 0, at |-> 0]
    /\ ins = EmptyMap
    /\ KeyIdle /\ BatchIdle /\ RegIdle /\ PoolIdle
    /\ APoolIdle /\ RThreadIdle /\ BThreadIdle /\ MonIdle /\ DecIdle /\ TailIdle
    /\ c_call = [t \in callers |-> IdleCall]

stepFrame == <<clockVars, variant, streak, ins, keyVars, batchVars, regVars, poolVars,
               apoolVars, rthreadVars, bthreadVars, monVars, decVars, tailVars, shutVars,
               objVars>>

CallKey(t) ==
    generate_cache_key(ServiceUrl, c_call[t].args.params, c_call[t].args.json_data,
                       c_call[t].args.data)

\* the caller's call after the step it was at, ok telling how the step went
Advance(t, ok) ==
    [c_call[t] EXCEPT !.pc = EnhancedService_next(c_call[t].pc, ok, c_call[t].use_cache),
                      !.trace = Append(@, c_call[t].pc)]

\* caller t calls service(params=..., json_data=..., data=..., use_cache=...)
StepStart(t, args, use_cache) ==
    /\ c_call[t].pc = "idle"
    /\ c_call' = [c_call EXCEPT ![t] = [IdleCall EXCEPT !.pc = "CheckBreaker", !.args = args,
                                                        !.use_cache = use_cache]]
    /\ UNCHANGED <<stepFrame, svc, cache, sessions, last>>

\* lines 216-219
StepCheckBreaker(t) ==
    /\ c_call[t].pc = "CheckBreaker"
    /\ \E q \in {is_circuit_breaker_open(svc, now)} :
          /\ svc' = q.svc
          /\ c_call' = [c_call EXCEPT ![t] =
                [Advance(t, ~q.ret) EXCEPT
                    !.seen_open = q.ret,
                    !.seen_cached = IF c_call[t].use_cache
                                    THEN ResponseCache_get(cache, CallKey(t), now).ret
                                    ELSE NoneVal]]
    /\ UNCHANGED <<stepFrame, cache, sessions, last>>

\* lines 224-230
StepCheckCache(t) ==
    /\ c_call[t].pc = "CheckCache"
    /\ \E g \in {ResponseCache_get(cache, CallKey(t), now)} :
          /\ cache' = g.cache
          /\ c_call' = [c_call EXCEPT ![t] = [Advance(t, g.ret # NoneVal) EXCEPT !.ret = g.ret]]
    /\ UNCHANGED <<stepFrame, svc, sessions, last>>

\* lines 232-246: input validation, then the session
StepValidateInput(t) ==
    /\ c_call[t].pc = "ValidateInput"
    /\ LET ok == check_proto(check_data(c_call[t].args), input_proto)
       IN  /\ c_call' = [c_call EXCEPT ![t] = Advance(t, ok)]
           /\ sessions' = IF ok THEN get_session(sessions, ServiceName) ELSE sessions
    /\ UNCHANGED <<stepFrame, svc, cache, last>>

\* lines 268-278, 336-337: the exchange; it ends with a response or an exception
StepSend(t, resp) ==
    /\ c_call[t].pc = "Send"
    /\ c_call' = [c_call EXCEPT ![t] =
          IF resp.kind = "exception" /\ ~is_RequestException(resp.error)
          THEN [c_call[t] EXCEPT !.pc = "Raised", !.resp = resp, !.trace = Append(@, "Send")]
          ELSE [Advance(t, resp.kind = "response") EXCEPT
                   !.resp = resp,
                   !.outcome = IF resp.kind = "response" THEN "none" ELSE "failure"]]
    /\ UNCHANGED <<stepFrame, svc, cache, sessions, last>>

\* line 280
StepCheckStatus(t) ==
    /\ c_call[t].pc = "CheckStatus"
    /\ LET ok == ~status_failed(c_call[t].resp.status)
       IN  c_call' = [c_call EXCEPT ![t] =
                        [Advance(t, ok) EXCEPT !.outcome = IF ok THEN "none" ELSE "failure"]]
    /\ UNCHANGED <<stepFrame, svc, cache, sessions, last>>

\* lines 295-297
StepParseBody(t) ==
    /\ c_call[t].pc = "ParseBody"
    /\ LET ok == c_call[t].resp.body.json
       IN  c_call' = [c_call EXCEPT ![t] =
                        [Advance(t, ok) EXCEPT !.outcome = IF ok THEN "none" ELSE "failure"]]
    /\ UNCHANGED <<stepFrame, svc, cache, sessions, last>>

\* line 303
StepValidateOutput(t) ==
    /\ c_call[t].pc = "ValidateOutput"
    /\ LET ok == check_proto(c_call[t].resp.body.data, output_proto)
       IN  c_call' = [c_call EXCEPT ![t] =
                        [Advance(t, ok) EXCEPT !.outcome = IF ok THEN "success" ELSE "failure"]]
    /\ UNCHANGED <<stepFrame, svc, cache, sessions, last>>

\* _record_failure() of lines 281, 298, 304, 337, or _record_success() of line 315
\* and the typed result of line 328
StepRecordOutcome(t) ==
    /\ c_call[t].pc = "RecordOutcome"
    /\ IF c_call[t].outcome = "success"
       THEN /\ svc' = record_success(svc)
            /\ c_call' = [c_call EXCEPT ![t] =
                  [Advance(t, TRUE) EXCEPT
                      !.ret = from_dict(output_proto, c_call[t].resp.body.data)]]
       ELSE /\ svc' = record_failure(svc, now)
            /\ c_call' = [c_call EXCEPT ![t] = Advance(t, FALSE)]
    /\ UNCHANGED <<stepFrame, cache, sessions, last>>

\* lines 331-332
StepCacheStore(t) ==
    /\ c_call[t].pc = "CacheStore"
    /\ cache' = ResponseCache_set(cache, CallKey(t), c_call[t].ret, now)
    /\ c_call' = [c_call EXCEPT ![t] = Advance(t, TRUE)]
    /\ UNCHANGED <<stepFrame, svc, sessions, last>>

\* the call hands its value to the caller, or its exception
StepReturn(t) ==
    /\ c_call[t].pc \in {"Return", "Raised"}
    /\ last' = [op |-> "step_call", raised |-> c_call[t].pc = "Raised",
                ret |-> c_call[t].ret, use_cache |-> c_call[t].use_cache,
                seen_open |-> c_call[t].seen_open, seen_cached |-> c_call[t].seen_cached,
                trace |-> IF c_call[t].pc = "Return" THEN Append(c_call[t].trace, "Return")
                          ELSE c_call[t].trace]
    /\ c_call' = [c_call EXCEPT ![t] = IdleCall]
    /\ UNCHANGED <<stepFrame, svc, cache, sessions>>

\* time passes, also between two steps of a call
StepTick(d) ==
    /\ ticks < MaxTicks
    /\ now' = now + d
    /\ ticks' = ticks + 1
    /\ UNCHANGED <<variant, svc, cache, sessions, last, streak, ins, keyVars, batchVars,
                   regVars, poolVars, extVars>>

\* _record_failure() from outside the call
StepRecordFailure ==
    /\ svc.failures < MaxFailures
    /\ svc' = record_failure(svc, now)
    /\ UNCHANGED <<clockVars, variant, cache, sessions, last, streak, ins, keyVars,
                   batchVars, regVars, poolVars, extVars>>

CallSteps(argset, cacheset, respset) ==
    \/ \E t \in Callers, args \in argset, use_cache \in cacheset : StepStart(t, args, use_cache)
    \/ \E t \in Callers : StepCheckBreaker(t)
    \/ \E t \in Callers : StepCheckCache(t)
    \/ \E t \in Callers : StepValidateInput(t)
    \/ \E t \in Callers, resp \in respset : StepSend(t, resp)
    \/ \E t \in Callers : StepCheckStatus(t)
    \/ \E t \in Callers : StepParseBody(t)
    \/ \E t \in Callers : StepValidateOutput(t)
    \/ \E t \in Callers : StepRecordOutcome(t)
    \/ \E t \in Callers : StepCacheStore(t)
    \/ \E t \in Callers : StepReturn(t)

\* one caller, making its calls one after the other
SoleCaller == {"main"}

\* valid JSON arguments, and none at all
StepArgs == {a \in CallArgs : a.params = NoneVal /\ a.data = NoneVal}

\* one answer for every way the exchange and the steps after it can go
StepResponses ==
    {r \in Responses : /\ r.kind = "exception" => r.error # "Timeout"
                       /\ r.kind = "response" => \/ r.status # 200
                                                 \/ r.body # JsonBody(Dict(<< <<"a", "2">> >>))}

StepsInit == StepsInitFor(SoleCaller)

StepsNext ==
    \/ CallSteps(StepArgs, BOOLEAN, StepResponses)
    \/ \E d \in BreakerSteps : StepTick(d)
    \/ StepRecordFailure

SpecSteps == StepsInit /\ [][StepsNext]_vars

\* the steps of the list, in its order, that a call with the given caching choice runs
StepsOf(use_cache) ==
    SelectSeq(StepOrder, LAMBDA st : st \notin {"CheckCache", "CacheStore"} \/ use_cache)

Increasing(trace) ==
    \A i \in 1..Len(trace), j \in 1..Len(trace) : i < j => Rank(trace[i]) < Rank(trace[j])

\* C24: the steps a blocking call has run are in the order CheckBreaker, CheckCache,
\* ValidateInput, Send, CheckStatus, ParseBody, ValidateOutput, RecordOutcome,
\* CacheStore, Return, none twice, CheckBreaker first, CheckCache and CacheStore
\* only with caching on; a call that returns a fresh result has run them all; and
\* a call whose breaker check found the breaker Open has run nothing else and
\* returns None, also when its key had an unexpired cache entry.
C24_StepOrder ==
    /\ \A t \in Callers :
          /\ Increasing(c_call[t].trace)
          /\ c_call[t].trace # <<>> => c_call[t].trace[1] = "CheckBreaker"
          /\ c_call[t].pc \notin {"idle", "Raised"} =>
                \A i \in 1..Len(c_call[t].trace) : Rank(c_call[t].trace[i]) < Rank(c_call[t].pc)
          /\ c_call[t].pc \in {"CheckCache", "CacheStore"} => c_call[t].use_cache
    /\ last.op = "step_call" =>
          /\ Increasing(last.trace)
          /\ last.trace[1] = "CheckBreaker"
          /\ (~last.raised /\ last.ret # NoneVal /\ last.seen_cached = NoneVal) =>
                last.trace = StepsOf(last.use_cache)
          /\ last.seen_open => (last.ret = NoneVal /\ last.trace = <<"CheckBreaker", "Return">>)

\* a call made with caching on, while the breaker was Open and its key had an
\* unexpired entry, was turned down at the breaker check
C24_Witness ==
    /\ last.op = "step_call" /\ last.use_cache
    /\ last.seen_open /\ last.seen_cached # NoneVal
    /\ last.ret = NoneVal

(***************************************************************************)
(* SpecStepThreads: the same steps run by threads that share one client;   *)
(* the interpreter may switch threads between any two steps.               *)
(***************************************************************************)
\* arguments that pass input validation
ThreadArgs == {a \in StepArgs : check_proto(check_data(a), input_proto)}

\* the remote end answers well, or the connection fails
ThreadResponses ==
    {[kind |-> "response", status |-> 200, body |-> JsonBody(Dict(<< <<"a", "1">> >>))],
     [kind |-> "exception", error |-> "ConnectionError"]}

StepThreadsInit == StepsInitFor(Threads)

StepThreadsNext == CallSteps(ThreadArgs, BOOLEAN, ThreadResponses)

SpecStepThreads == StepThreadsInit /\ [][StepThreadsNext]_vars

\* C28: a thread of the blocking client starts its exchange only while the breaker
\* is not Open (counter under the threshold, or the open-duration over).
C28_NoExchangeWhileOpen ==
    [][\A t \in Callers :
          (c_call[t].pc = "Send" /\ c_call'[t].pc # "Send") => ~BreakerIsOpen]_vars

(***************************************************************************)
(* SpecCachedCalls: the blocking client over times long enough for its     *)
(* cache entries to expire                                                 *)
(***************************************************************************)
CachedCallsInit == Init /\ variant = "blocking"

CachedCallsNext ==
    \/ \E d \in CacheSteps : Tick(d)
    \/ RecordFailure
    \/ EnhancedCall

SpecCachedCalls == CachedCallsInit /\ [][CachedCallsNext]_vars

\* the call just made ran with caching on, got status 200 and a decodable body
\* that the output schema accepts, and returned
AcceptedCachingCall ==
    /\ last'.op = "call" /\ last'.use_cache /\ last'.stage = "Return"
    /\ last'.resp.kind = "response" /\ last'.resp.status = 200
    /\ last'.resp.body.json /\ check_proto(last'.resp.body.data, output_proto)

\* C31: a step creates or replaces a cache entry only if it is a call with caching
\* on that got status 200, decoded the body and passed output validation, and the
\* entry is then that call's key with from_dict of its body, stamped now; a step
\* removes an entry only if it is a caching call that got past the breaker check
\* and looked up that very key after its ttl had run out; every value held is the
\* from_dict of a body the output schema accepts.
C31_CacheProvenance ==
    [][/\ \A k \in DOMAIN cache'.cache :
             (\/ k \notin DOMAIN cache.cache
              \/ cache'.cache[k] # cache.cache[k]
              \/ cache'.timestamps[k] # cache.timestamps[k]) =>
                 /\ AcceptedCachingCall
                 /\ k = last'.key
                 /\ cache'.cache[k] = from_dict(output_proto, last'.resp.body.data)
                 /\ cache'.timestamps[k] = now
       /\ \A k \in DOMAIN cache.cache \ DOMAIN cache'.cache :
             /\ last'.op = "call" /\ last'.use_cache /\ ~last'.open
             /\ k = last'.key
             /\ now - cache.timestamps[k] >= cache.ttl
       /\ \A k \in DOMAIN cache'.cache :
             \E b \in Bodies : /\ b.json /\ check_proto(b.data, output_proto)
                               /\ cache'.cache[k] = from_dict(output_proto, b.data)
       /\ DOMAIN cache'.timestamps = DOMAIN cache'.cache]_vars

\* a caching call found the entry of its key expired, dropped it and stored its
\* own result in its place
C31_Witness ==
    /\ last.op = "call" /\ last.use_cache /\ last.stage = "Return"
    /\ last.held /\ last.cached = NoneVal
    /\ last.key \in DOMAIN cache.cache
    /\ cache.timestamps[last.key] = now /\ now >= cache.ttl
    /\ cache.cache[last.key] = last.ret

(***************************************************************************)
(* SpecInput: calls of either client with every combination of absent,     *)
(* empty, valid and invalid params / json_data / data; the remote end      *)
(* always answers well, so a call returns None only if its input failed    *)
(***************************************************************************)
InputDicts ==
    {NoneVal, Dict(<<>>), Dict(<< <<"a", "1">> >>), Dict(<< <<"a", "'x'">> >>)}

InputArgs ==
    {[params |-> p, json_data |-> j, data |-> d] :
        p \in InputDicts, j \in InputDicts, d \in InputDicts}

GoodResponse == [kind |-> "response", status |-> 200, body |-> JsonBody(Dict(<< <<"a", "1">> >>))]

InputRecord(o, args) ==
    [op |-> "input_call", args |-> args, stage |-> o.stage, sent |-> o.sent, ret |-> o.ret]

EnhancedInputCall ==
    /\ variant = "blocking"
    /\ \E args \in InputArgs :
         \E o \in {EnhancedService_call(svc, cache, sessions, now, args, FALSE, GoodResponse)} :
             /\ svc' = o.svc
             /\ cache' = o.cache
             /\ sessions' = o.sessions
             /\ last' = InputRecord(o, args)
    /\ UNCHANGED <<clockVars, variant, streak, ins, keyVars, batchVars, regVars, poolVars, extVars>>

AsyncInputCall ==
    /\ variant = "nonblocking"
    /\ \E args \in InputArgs :
         \E o \in {AsyncService_call(svc, sessions, now, args, GoodResponse)} :
             /\ svc' = o.svc
             /\ sessions' = o.sessions
             /\ last' = InputRecord(o, args)
    /\ UNCHANGED <<clockVars, variant, cache, streak, ins, keyVars, batchVars, regVars,
                   poolVars, extVars>>

InputNext == EnhancedInputCall \/ AsyncInputCall

SpecInput == Init /\ [][InputNext]_vars

\* what the priority order explicit body, JSON body, query parameters selects
Selected(a) ==
    CASE ~a.data.isNone -> a.data
      [] a.data.isNone /\ ~a.json_data.isNone -> a.json_data
      [] a.data.isNone /\ a.json_data.isNone /\ ~a.params.isNone -> a.params
      [] OTHER -> Dict(<<>>)

\* C32: a call of either client is turned down at input validation, without an
\* exchange, exactly if the input schema rejects the first non-absent of data,
\* json_data, params (the empty payload when all three are absent); what the
\* lower-priority arguments hold makes no difference.
C32_InputPriority ==
    last.op = "input_call" =>
        /\ (last.stage = "ValidateInput") <=> FromDictRaises(input_proto, Selected(last.args))
        /\ last.stage = "ValidateInput" => (~last.sent /\ last.ret = NoneVal)
        /\ last.stage # "ValidateInput" => last.sent

\* a valid explicit body beside an invalid JSON body and invalid query parameters:
\* the call was sent
C32_Witness ==
    /\ last.op = "input_call"
    /\ ~last.args.data.isNone /\ ~FromDictRaises(input_proto, last.args.data)
    /\ ~last.args.json_data.isNone /\ FromDictRaises(input_proto, last.args.json_data)
    /\ ~last.args.params.isNone /\ FromDictRaises(input_proto, last.args.params)
    /\ last.sent /\ last.ret # NoneVal

(***************************************************************************)
(* SpecMetrics: record_request and get_metrics called one after the other  *)
(***************************************************************************)
\* a / b rounded to the nearest whole number (b > 0)
RoundDiv(a, b) == (2 * a + b) \div (2 * b)

\* f"{x:.2f}%" and f"{x:.3f}s": the number in hundredths / thousandths and the unit
Percent2(num, den) == [hundredths |-> RoundDiv(num * 100 * 100, den), unit |-> "%"]
Seconds3(num, den) == [thousandths |-> RoundDiv(num * 1000, den), unit |-> "s"]

\* ServiceMonitor.get_metrics, lines 142-165; the empty dict for an unknown name
ServiceMonitor_get_metrics(m, service_name) ==
    IF service_name \notin DOMAIN m.names
    THEN EmptyMap
    ELSE LET metrics == m.objs[m.names[service_name]]
         IN  [total_requests |-> metrics.total_requests,
              successful_requests |-> metrics.successful_requests,
              failed_requests |-> metrics.failed_requests,
              success_rate |-> IF metrics.total_requests > 0
                               THEN Percent2(metrics.successful_requests, metrics.total_requests)
                               ELSE Percent2(0, 1),
              avg_response_time |-> IF metrics.total_requests > 0
                                    THEN Seconds3(metrics.total_response_time,
                                                  metrics.total_requests)
                                    ELSE Seconds3(0, 1),
              max_response_time |-> Seconds3(metrics.max_response_time, 1),
              min_response_time |-> IF metrics.min_response_time.inf THEN "infs"
                                    ELSE Seconds3(metrics.min_response_time.v, 1)]

MetricsInit == FeedInit /\ variant = "blocking"

metricsFrame == <<clockVars, coreVars, keyVars, batchVars, regVars, poolVars,
                  apoolVars, rthreadVars, bthreadVars, decVars, stepVars, shutVars,
                  objVars, m_pc, m_arg, m_tmp>>

\* global_monitor.record_request(service_name, success, response_time)
MetricsRecord(service_name, success, response_time) ==
    /\ Len(m_log) < MaxLog
    /\ m_metrics' = ServiceMonitor_record_request(m_metrics, service_name, success, response_time)
    /\ m_log' = Append(m_log, [name |-> service_name, success |-> success,
                               time |-> response_time])
    /\ last' = [op |-> "record_request"]
    /\ UNCHANGED metricsFrame

\* global_monitor.get_metrics(service_name)
MetricsRead(service_name) ==
    /\ last' = [op |-> "get_metrics", name |-> service_name,
                ret |-> ServiceMonitor_get_metrics(m_metrics, service_name)]
    /\ UNCHANGED <<metricsFrame, m_metrics, m_log>>

MetricsNext ==
    \/ \E n \in MonitorNames, success \in BOOLEAN, rt \in ResponseTimes :
          MetricsRecord(n, success, rt)
    \/ \E n \in MonitorNames : MetricsRead(n)

SpecMetrics == MetricsInit /\ [][MetricsNext]_vars

\* the record_request calls made for a name so far
RecordedFor(log, n) == SelectSeq(log, LAMBDA r : r.name = n)

RECURSIVE SumTimes(_)
SumTimes(recs) == IF recs = <<>> THEN 0 ELSE recs[1].time + SumTimes(Tail(recs))

StoredKeys ==
    {"total_requests", "successful_requests", "failed_requests",
     "total_response_time", "max_response_time", "min_response_time"}

\* C33: after every step, for every name that has an entry: total = successful +
\* failed = the number of record_request calls made for the name, none of the three
\* counts is lower than before the step, the stored sum is the sum of the recorded
\* times, min <= max, and the entry stores the six counters only; get_metrics
\* changes nothing and computes success rate and average from the stored counters.
C33_MetricsRecord ==
    [][/\ \A n \in DOMAIN m_metrics'.names :
             LET x == MetricsOf(m_metrics', n)
                 old == MetricsOf(m_metrics, n)
                 recs == RecordedFor(m_log', n)
             IN  /\ x.total_requests = x.successful_requests + x.failed_requests
                 /\ x.total_requests = Len(recs)
                 /\ x.successful_requests = Len(SelectSeq(recs, LAMBDA r : r.success))
                 /\ x.total_requests >= old.total_requests
                 /\ x.successful_requests >= old.successful_requests
                 /\ x.failed_requests >= old.failed_requests
                 /\ x.total_response_time = SumTimes(recs)
                 /\ ~x.min_response_time.inf
                 /\ x.min_response_time.v <= x.max_response_time
                 /\ DOMAIN x = StoredKeys
       /\ last'.op = "get_metrics" =>
             /\ m_metrics' = m_metrics
             /\ last'.name \in DOMAIN m_metrics.names =>
                   LET x == MetricsOf(m_metrics, last'.name)
                   IN  /\ last'.ret.success_rate
                             = Percent2(x.successful_requests, x.total_requests)
                       /\ last'.ret.avg_response_time
                             = Seconds3(x.total_response_time, x.total_requests)]_vars

\* a name with one success and one failure recorded was read: rate 50.00%, and the
\* average lies between the two times
C33_Witness ==
    /\ last.op = "get_metrics" /\ last.name \in DOMAIN m_metrics.names
    /\ Len(RecordedFor(m_log, last.name)) = 2
    /\ last.ret.successful_requests = 1 /\ last.ret.failed_requests = 1
    /\ last.ret.success_rate = [hundredths |-> 5000, unit |-> "%"]
    /\ last.ret.avg_response_time = [thousandths |-> 1500, unit |-> "s"]

(***************************************************************************)
(* SpecTtl: calls that pass a cache_ttl of their own, directly or through  *)
(* the service_call decorator                                              *)
(***************************************************************************)
\* the cache_ttl values callers pass: shorter than, equal to and longer than the
\* cache's own
CallTtls == {1, cache_ttl_default, 2 * cache_ttl_default}

\* a call that looks up and stores under the cache_ttl it was given
EnhancedService_call_kw_ttl_applied(s, c, ss, t, args, use_cache, cache_ttl, resp) ==
    EnhancedService_call(s, [c EXCEPT !.ttl = cache_ttl], ss, t, args, use_cache, resp)

\* EnhancedService.__call__ with its cache_ttl parameter (line 212); the body of
\* __call__ never reads it
EnhancedService_call_kw(s, c, ss, t, args, use_cache, cache_ttl, resp) ==
    EnhancedService_call(s, c, ss, t, args, use_cache, resp)

\* lines 402-406: the wrapper's call_kwargs, made from the dict the decorated
\* function returned and the decorator's own use_cache and cache_ttl
wrapper_call_kwargs(func_result, use_cache, cache_ttl) ==
    [args |-> func_result.kwargs, use_cache |-> use_cache, cache_ttl |-> cache_ttl]

TtlResponses == {GoodResponse, [kind |-> "exception", error |-> "ConnectionError"]}

\* observer: the age of the entry under the call's key when the call was made
EntryAge(key) ==
    IF key \in DOMAIN cache.cache THEN now - cache.timestamps[key] ELSE -1

TtlRecord(o, args, use_cache, cache_ttl, wrapped) ==
    [op |-> "ttl_call", stage |-> o.stage, open |-> o.open, ret |-> o.ret,
     use_cache |-> use_cache, cache_ttl |-> cache_ttl, wrapped |-> wrapped,
     key |-> generate_cache_key(ServiceUrl, args.params, args.json_data, args.data),
     age |-> EntryAge(generate_cache_key(ServiceUrl, args.params, args.json_data, args.data))]

TtlInit == Init /\ variant = "blocking"

ttlFrame == <<clockVars, variant, streak, ins, keyVars, batchVars, regVars, poolVars, extVars>>

\* service(json_data=..., use_cache=..., cache_ttl=...)
TtlCall(args, use_cache, cache_ttl, resp) ==
    /\ \E o \in {EnhancedService_call_kw(svc, cache, sessions, now, args, use_cache,
                                         cache_ttl, resp)} :
          /\ svc' = o.svc
          /\ cache' = o.cache
          /\ sessions' = o.sessions
          /\ last' = TtlRecord(o, args, use_cache, cache_ttl, FALSE)
    /\ UNCHANGED ttlFrame

\* a function decorated with @service_call(name, use_cache, cache_ttl) is called
\* and returns a dict of call arguments
WrappedTtlCall(func_result, use_cache, cache_ttl, resp) ==
    /\ func_result.isDict
    /\ \E kw \in {wrapper_call_kwargs(func_result, use_cache, cache_ttl)} :
         \E o \in {EnhancedService_call_kw(svc, cache, sessions, now, kw.args, kw.use_cache,
                                           kw.cache_ttl, resp)} :
             /\ svc' = o.svc
             /\ cache' = o.cache
             /\ sessions' = o.sessions
             /\ last' = TtlRecord(o, kw.args, kw.use_cache, kw.cache_ttl, TRUE)
    /\ UNCHANGED ttlFrame

TtlNext ==
    \/ \E d \in CacheSteps : Tick(d)
    \/ \E args \in ThreadArgs, use_cache \in BOOLEAN, cache_ttl \in CallTtls,
          resp \in TtlResponses : TtlCall(args, use_cache, cache_ttl, resp)
    \/ \E fr \in FuncResults, use_cache \in BOOLEAN, cache_ttl \in CallTtls,
          resp \in TtlResponses : WrappedTtlCall(fr, use_cache, cache_ttl, resp)

SpecTtl == TtlInit /\ [][TtlNext]_vars

\* C34: whatever cache_ttl a call is given, directly or by the decorator, the
\* cache keeps the ttl it was built with (300); a caching call that gets past the
\* breaker is served from the cache exactly if its key has an entry younger than
\* that ttl, drops the entry if it is older, and stamps what it stores with the
\* time of the call.
C34_TtlPerInstance ==
    [][/\ cache'.ttl = cache_ttl_default
       /\ (last'.op = "ttl_call" /\ last'.use_cache /\ ~last'.open) =>
             /\ (last'.stage = "CheckCache") <=>
                   (last'.age >= 0 /\ last'.age < cache_ttl_default)
             /\ (last'.age >= cache_ttl_default /\ last'.stage # "Return") =>
                   last'.key \notin DOMAIN cache'.cache
             /\ last'.stage = "Return" => cache'.timestamps[last'.key] = now]_vars

\* a call given cache_ttl = 1 was served an entry older than that
C34_Witness ==
    /\ last.op = "ttl_call" /\ last.use_cache /\ last.cache_ttl = 1
    /\ last.stage = "CheckCache" /\ last.age > 1
    /\ last.ret # NoneVal

(***************************************************************************)
(* SpecReRegister: a name is registered again with another config, and     *)
(* calls are made through the client the registry holds                    *)
(***************************************************************************)
\* configs for one name that differ in retry count, pool size and default headers
SessionConfigs ==
    {[name |-> "svc", service_url |-> ServiceUrl, max_retries |-> r,
      pool_connections |-> 10, pool_maxsize |-> p, headers |-> h] :
        r \in {config_max_retries, 0}, p \in {20, 40},
        h \in {NoneVal, Dict(<< <<"a", "'x'">> >>)}}

\* lines 52-77: the requests.Session made for a config
Session_new(config) ==
    [max_retries |-> config.max_retries,
     pool_connections |-> config.pool_connections,
     pool_maxsize |-> config.pool_maxsize,
     headers |-> IF ~config.headers.isNone /\ config.headers.items # <<>>
                 THEN config.headers ELSE Dict(<<>>)]

\* ConnectionManager.get_session(service_name, config), lines 50-81
ConnectionManager_get_session(ss, service_name, config) ==
    IF service_name \notin DOMAIN ss
    THEN [ret |-> Session_new(config), sessions |-> (service_name :> Session_new(config)) @@ ss]
    ELSE [ret |-> ss[service_name], sessions |-> ss]

\* get_service(name)(json_data=...): the call is made by the client the registry
\* holds; session is the one line 246 hands the call, if it gets that far
ReCall(name, args, resp) ==
    /\ name \in DOMAIN r_services
    /\ LET service == ServiceRegistry_get_service(r_services, name)
       IN  \E o \in {EnhancedService_call(service.breaker, service.cache, EmptyMap, now,
                                          args, FALSE, resp)} :
              \E g \in {ConnectionManager_get_session(sessions, service.config.name,
                                                      service.config)} :
                 /\ r_services' = [r_services EXCEPT ![name].breaker = o.svc,
                                                     ![name].cache = o.cache]
                 /\ sessions' = IF o.stage \in {"CheckBreaker", "ValidateInput"}
                                THEN sessions ELSE g.sessions
                 /\ last' = [op |-> "re_call", client |-> service.id,
                             config |-> service.config, sent |-> o.sent,
                             session |-> IF o.sent THEN g.ret ELSE NoneVal]
    /\ UNCHANGED <<clockVars, variant, svc, cache, streak, ins, keyVars, batchVars, poolVars,
                   extVars, r_async, r_next, r_latest, r_replaced>>

ReRegisterNext ==
    \/ \E c \in SessionConfigs : Register(c)
    \/ \E args \in StepArgs, resp \in TtlResponses : ReCall("svc", args, resp)

SpecReRegister == RegistryInit /\ [][ReRegisterNext]_vars

\* C35: a call that is sent goes over a session set up from the config of the
\* client that makes it: that config's retry count, pool sizes and default headers.
C35_SessionFromCurrentConfig ==
    (last.op = "re_call" /\ last.sent) => last.session = Session_new(last.config)

(***************************************************************************)
(* SpecPoolSend: threads that get the session of a name and send on it,    *)
(* beside threads that close the name's session                            *)
(***************************************************************************)
\* lines 270-278: the thread sends its request on the session line 246 gave it
PoolSend(t) ==
    /\ p_pc[t] = "done"
    /\ p_pc' = [p_pc EXCEPT ![t] = "idle"]
    /\ last' = [op |-> "send", thread |-> t, name |-> p_name[t], session |-> p_ret[t],
                shut |-> <<p_name[t], p_ret[t]>> \in p_shut]
    /\ UNCHANGED <<clockVars, coreVars, keyVars, batchVars, regVars, extVars>>
    /\ UNCHANGED <<p_sessions, p_name, p_local, p_ret, p_created, p_closed, p_handed>>

\* all threads work on one service name
PoolSendNext ==
    \/ \E t \in Threads : PoolCall(t, ServiceName)
    \/ \E t \in Threads : PoolCheck(t)
    \/ \E t \in Threads : PoolCreate(t)
    \/ \E t \in Threads : PoolStore(t)
    \/ \E t \in Threads : PoolReturn(t)
    \/ \E t \in Threads : PoolSend(t)
    \/ \E t \in Threads : PoolCloseCall(t, ServiceName)
    \/ \E t \in Threads : PoolCloseCheck(t)
    \/ \E t \in Threads : PoolCloseSession(t)
    \/ \E t \in Threads : PoolCloseDel(t)

SpecPoolSend == PoolInit /\ [][PoolSendNext]_vars

\* C36: the session a call of the blocking client sends on has not been closed.
C36_SendOnOpenSession ==
    last.op = "send" => ~last.shut

(***************************************************************************)
(* Spec, continued: what a call rejected at input validation leaves behind *)
(***************************************************************************)
RejectedCall == last'.op = "call" /\ last'.stage = "ValidateInput"

\* C37 as stated: a call of either client that is rejected at input validation
\* leaves the failure counter, the last-failure timestamp, the cache and the
\* session map as they were.
C37_RejectedCallUntouched ==
    [][RejectedCall =>
          /\ svc' = svc
          /\ cache' = cache
          /\ sessions' = sessions]_vars

\* C37 amended: such a call leaves the last-failure timestamp, the cache and the
\* session map as they were and records no failure; the failure counter is
\* unchanged unless it had reached the threshold and the open-duration was over, in
\* which case the call's breaker check has reset it to 0.
C37_RejectedCallFrame ==
    [][RejectedCall =>
          /\ svc'.last_failure = svc.last_failure
          /\ svc'.failures = IF svc.failures >= circuit_breaker_threshold
                             THEN 0 ELSE svc.failures
          /\ cache' = cache
          /\ sessions' = sessions
          /\ last'.ret = NoneVal /\ ~last'.sent]_vars

\* an invalid input was rejected while failures stood on the counter, a session
\* existed and the cache held an entry
C37_Witness ==
    /\ last.op = "call" /\ last.stage = "ValidateInput" /\ last.use_cache
    /\ svc.failures \in 1..(circuit_breaker_threshold - 1)
    /\ ServiceName \in DOMAIN sessions
    /\ cache.cache # EmptyMap

(***************************************************************************)
(* SpecBatchFair: batch_call with an event loop that keeps running ready   *)
(* tasks and a network whose exchanges all end                             *)
(***************************************************************************)
SpecBatchFair == SpecBatch /\ WF_vars(BatchNext)

\* C38: every batch_call returns, with every request admitted and finished and
\* every permit of the semaphore given back.
C38_BatchTerminates ==
    <>(/\ b_state = "returned"
       /\ \A i \in Members : b_pc[i] = "done"
       /\ b_sem = batch_semaphore(b_max))

\* a batch of more requests than permits has returned; one of its calls raised,
\* one returned None and one returned a result
C38_Witness ==
    /\ b_state = "returned"
    /\ Len(b_reqs) > b_max
    /\ b_sem = b_max
    /\ \E i \in Members : b_out[i].exc
    /\ \E i \in Members : ~b_out[i].exc /\ b_out[i].value = NoneVal
    /\ \E i \in Members : ~b_out[i].exc /\ b_out[i].value # NoneVal

(***************************************************************************)
(* SpecCalls: a client that is only called, one call after the other; no   *)
(* one touches its breaker from outside                                    *)
(***************************************************************************)
CallsNext ==
    \/ \E d \in BreakerSteps : Tick(d)
    \/ EnhancedCall
    \/ AsyncCall

SpecCalls == Init /\ [][CallsNext]_vars

\* C39: the failure counter of a client whose calls do not overlap is always
\* between 0 and the threshold (5).
C39_CounterBounded ==
    svc.failures \in 0..circuit_breaker_threshold

\* the counter stands at the threshold and a call has just been refused
C39_Witness ==
    /\ last.op = "call" /\ last.open /\ last.stage = "CheckBreaker"
    /\ svc.failures = circuit_breaker_threshold

(***************************************************************************)
(* SpecFresh: clients are registered, called and registered again; a       *)
(* caller may go on using a client the registry no longer holds            *)
(***************************************************************************)
\* how many clients are registered in all
MaxClients == 2

\* two configs for the one name
FreshConfigs == {c \in Configs : c.name = ServiceName}

FreshInit ==
    /\ now = 0 /\ ticks = 0
    /\ variant \in {"blocking", "nonblocking"}
    /\ svc = IF variant = "blocking" THEN EnhancedService_init ELSE AsyncService_init
    /\ cache = ResponseCache_init(cache_ttl_default)
    /\ sessions = EmptyMap
    /\ last = [op |-> "init"]
    /\ streak = [n |-> 0, at |-> 0]
    /\ ins = EmptyMap
    /\ KeyIdle /\ BatchIdle /\ PoolIdle
    /\ APoolIdle /\ RThreadIdle /\ BThreadIdle /\ MonIdle /\ DecIdle /\ StepIdle
    /\ m_log = <<>> /\ p_shut = {}
    /\ r_services = EmptyMap
    /\ r_async = EmptyMap
    /\ r_next = 1
    /\ r_latest = [sync |-> EmptyMap, async |-> EmptyMap]
    /\ r_replaced = [sync |-> {}, async |-> {}]
    /\ r_objs = <<>>

freshFrame == <<clockVars, variant, svc, cache, streak, ins, keyVars, batchVars, poolVars,
                apoolVars, rthreadVars, bthreadVars, monVars, decVars, stepVars, tailVars,
                shutVars, r_latest, r_replaced>>

\* the registry the client under test belongs to
FreshRegistry == IF variant = "blocking" THEN r_services ELSE r_async

\* ServiceRegistry.register(config) / AsyncServiceRegistry.register(config); the
\* caller keeps the client it gets back
FreshRegister(config) ==
    /\ r_next <= MaxClients
    /\ \E r \in {IF variant = "blocking"
                 THEN ServiceRegistry_register(r_services, config, r_next)
                 ELSE AsyncServiceRegistry_register(r_async, config, r_next)} :
          /\ IF variant = "blocking"
             THEN r_services' = r.services /\ UNCHANGED r_async
             ELSE r_async' = r.services /\ UNCHANGED r_services
          /\ r_objs' = Append(r_objs, r.ret)
          /\ last' = [op |-> "register", config |-> config, ret |-> r.ret,
                      replaced |-> IF config.name \in DOMAIN FreshRegistry
                                   THEN FreshRegistry[config.name].id ELSE 0]
    /\ r_next' = r_next + 1
    /\ UNCHANGED <<freshFrame, sessions>>

\* the registry after the state of client k has changed: it holds the object itself
Refreshed(services, k, client) ==
    [n \in DOMAIN services |-> IF services[n].id = k THEN client ELSE services[n]]

\* a caller that holds client k of the blocking registry calls it
FreshCall(k, args, use_cache, resp) ==
    /\ variant = "blocking"
    /\ k \in DOMAIN r_objs
    /\ \E o \in {EnhancedService_call(r_objs[k].breaker, r_objs[k].cache, sessions, now,
                                      args, use_cache, resp)} :
          /\ r_objs' = [r_objs EXCEPT ![k].breaker = o.svc, ![k].cache = o.cache]
          /\ r_services' = Refreshed(r_services, k, r_objs'[k])
          /\ sessions' = o.sessions
          /\ last' = [op |-> "client_call", client |-> k, stage |-> o.stage]
    /\ UNCHANGED <<freshFrame, r_async, r_next>>

\* a caller that holds client k of the non-blocking registry awaits it
FreshAsyncCall(k, args, resp) ==
    /\ variant = "nonblocking"
    /\ k \in DOMAIN r_objs
    /\ \E o \in {AsyncService_call(r_objs[k].breaker, sessions, now, args, resp)} :
          /\ r_objs' = [r_objs EXCEPT ![k].breaker = o.svc]
          /\ r_async' = Refreshed(r_async, k, r_objs'[k])
          /\ sessions' = o.sessions
          /\ last' = [op |-> "client_call", client |-> k, stage |-> o.stage]
    /\ UNCHANGED <<freshFrame, r_services, r_next>>

FreshNext ==
    \/ \E c \in FreshConfigs : FreshRegister(c)
    \/ \E k \in 1..MaxClients, use_cache \in BOOLEAN, resp \in TtlResponses :
          \E args \in ThreadArgs : FreshCall(k, args, use_cache, resp)
    \/ \E k \in 1..MaxClients, resp \in TtlResponses :
          \E args \in ThreadArgs : FreshAsyncCall(k, args, resp)

SpecFresh == FreshInit /\ [][FreshNext]_vars

\* C40: the client a registration returns has the config it was given, failure
\* counter 0 and last-failure time 0 and, in the blocking registry, an empty cache;
\* it is the client the registry now holds under the name; and the registration
\* changes no client made before it, the one it replaces included.
C40_FreshClient ==
    [][last'.op = "register" =>
          /\ last'.ret.config = last'.config
          /\ last'.ret.breaker = [failures |-> 0, last_failure |-> 0]
          /\ variant = "blocking" =>
                /\ last'.ret.cache.cache = EmptyMap
                /\ last'.ret.cache.timestamps = EmptyMap
          /\ FreshRegistry'[last'.config.name] = last'.ret
          /\ r_objs'[last'.ret.id] = last'.ret
          /\ \A k \in DOMAIN r_objs : r_objs'[k] = r_objs[k]]_vars

\* a name was registered again while its client had an Open breaker and a cached
\* entry
C40_Witness ==
    /\ last.op = "register" /\ last.replaced # 0
    /\ variant = "blocking"
    /\ r_objs[last.replaced].breaker.failures >= circuit_breaker_threshold
    /\ r_objs[last.replaced].cache.cache # EmptyMap
    /\ r_services[last.config.name].breaker.failures = 0

====
